---------------------------- MODULE Spec2Model ----------------------------
(***************************************************************************)
(* A model of the lighting-mcp demonstration application: the simulated    *)
(* Oracle tools (oracle_tools.py) over the DatabaseManager (database.py)   *)
(* and the HTTP tools (api_tools.py, simple_mcp_server.py).                *)
(*                                                                         *)
(* Text (SQL statements, URLs) is a sequence of one-character strings, so  *)
(* that the substring tests, regular-expression substitutions and URL      *)
(* parsing of the source are computed character by character.              *)
(***************************************************************************)
EXTENDS Integers, Sequences, FiniteSets, TLC

(***************************************************************************)
(* Text primitives: the Python str methods the source uses.                *)
(***************************************************************************)

LowerAlpha == <<"a","b","c","d","e","f","g","h","i","j","k","l","m","n","o","p","q","r","s","t","u","v","w","x","y","z">>

UpperAlpha == <<"A","B","C","D","E","F","G","H","I","J","K","L","M","N","O","P","Q","R","S","T","U","V","W","X","Y","Z">>

\* the other characters of the model's texts
OtherChars == <<" ","0","1","2","3","4","5","6","7","8","9","'","\"","%","(",")",",",";",":","/","?","#","[","]","@","!","$","&","*","+","-",".","_","=","<",">">>

Chars == {LowerAlpha[i] : i \in 1..26} \cup {UpperAlpha[i] : i \in 1..26}
             \cup {OtherChars[i] : i \in 1..Len(OtherChars)}

\* str.upper() on one character
UpperOf ==
    [c \in Chars |-> IF \E i \in 1..26 : LowerAlpha[i] = c
                     THEN UpperAlpha[CHOOSE i \in 1..26 : LowerAlpha[i] = c]
                     ELSE c]

\* str.lower() on one character
LowerOf ==
    [c \in Chars |-> IF \E i \in 1..26 : UpperAlpha[i] = c
                     THEN LowerAlpha[CHOOSE i \in 1..26 : UpperAlpha[i] = c]
                     ELSE c]

UpperChar(c) == UpperOf[c]

LowerChar(c) == LowerOf[c]

\* str.upper()
Upper(s) == [i \in 1..Len(s) |-> UpperChar(s[i])]

\* str.lower()
Lower(s) == [i \in 1..Len(s) |-> LowerChar(s[i])]

\* str.isspace() on one character (the model's texts hold no other whitespace)
IsSpace(c) == c = " "

\* s[i:] with i counted from 1
Tail0(s, i) == SubSeq(s, i, Len(s))

\* s[a-1:b] with a counted from 1: a slice may run past the end of the text
Slice(s, a, b) ==
    IF a > Len(s) THEN <<>> ELSE SubSeq(s, a, IF b > Len(s) THEN Len(s) ELSE b)

\* the index of the first character at or after i that is not whitespace
RECURSIVE SkipSpace(_, _)
SkipSpace(s, i) ==
    IF i <= Len(s) /\ IsSpace(s[i]) THEN SkipSpace(s, i + 1) ELSE i

\* str.rstrip()
RECURSIVE RStrip(_)
RStrip(s) ==
    IF Len(s) > 0 /\ IsSpace(s[Len(s)]) THEN RStrip(SubSeq(s, 1, Len(s) - 1)) ELSE s

\* str.rstrip(c)
RECURSIVE RStripChar(_, _)
RStripChar(s, c) ==
    IF Len(s) > 0 /\ s[Len(s)] = c THEN RStripChar(SubSeq(s, 1, Len(s) - 1), c) ELSE s

\* str.strip()
Strip(s) == RStrip(Tail0(s, SkipSpace(s, 1)))

\* str.startswith(p)
StartsWith(s, p) == Len(s) >= Len(p) /\ SubSeq(s, 1, Len(p)) = p

\* str.endswith(p)
EndsWith(s, p) == Len(s) >= Len(p) /\ SubSeq(s, Len(s) - Len(p) + 1, Len(s)) = p

\* p in s
Contains(s, p) ==
    \E i \in 1..(Len(s) - Len(p) + 1) :
        (p = <<>> \/ s[i] = p[1]) /\ SubSeq(s, i, i + Len(p) - 1) = p

\* "".join(parts)
RECURSIVE Join(_)
Join(parts) == IF parts = <<>> THEN <<>> ELSE Head(parts) \o Join(Tail(parts))

(***************************************************************************)
(* re.sub and re.match as oracle_tools.py uses them.  A pattern is a       *)
(* sequence of elements [set, star]: one character of `set`, or any number *)
(* of them when `star` holds; matching ignores case (re.IGNORECASE), so    *)
(* the sets hold upper-case characters.  A starred element is followed by  *)
(* an element whose set is disjoint from its own, so the greedy match is   *)
(* the only one.                                                           *)
(***************************************************************************)

Lit(s) == [i \in 1..Len(s) |-> [set |-> {s[i]}, star |-> FALSE]]

Quote == <<[set |-> {"\"", "'"}, star |-> FALSE]>>

SpaceStar == <<[set |-> {" "}, star |-> TRUE]>>

\* whether pattern element e takes the character at s[i]
Takes(e, s, i) == i <= Len(s) /\ UpperChar(s[i]) \in e.set

\* the index after the match of pat[j..] at s[i..], or 0 when there is none
RECURSIVE MatchEnd(_, _, _, _)
MatchEnd(s, i, pat, j) ==
    IF j > Len(pat) THEN i
    ELSE IF pat[j].star
    THEN IF Takes(pat[j], s, i) THEN MatchEnd(s, i + 1, pat, j) ELSE MatchEnd(s, i, pat, j + 1)
    ELSE IF Takes(pat[j], s, i) THEN MatchEnd(s, i + 1, pat, j + 1) ELSE 0

\* the least element of a set of positive numbers, or 0 when it has none
Least(S) == IF S = {} THEN 0 ELSE CHOOSE x \in S : \A y \in S : x <= y

\* the first index at or after i where pat matches, or 0 when there is none
FirstMatch(s, i, pat) == Least({p \in i..Len(s) : MatchEnd(s, p, pat, 1) > 0})

\* re.sub(pat, repl, s, flags=re.IGNORECASE), scanning from index i: the
\* leftmost match, at p, is replaced and the scan goes on after it
RECURSIVE SubFrom(_, _, _, _)
SubAt(s, i, p, pat, repl) ==
    IF p = 0 THEN Tail0(s, i)
    ELSE SubSeq(s, i, p - 1) \o repl \o SubFrom(s, MatchEnd(s, p, pat, 1), pat, repl)

SubFrom(s, i, pat, repl) == SubAt(s, i, FirstMatch(s, i, pat), pat, repl)

ReSub(pat, repl, s) == SubFrom(s, 1, pat, repl)

(***************************************************************************)
(* OracleQueryTool: validation and formatting of the SQL text.             *)
(***************************************************************************)

dangerous_keywords ==
    { <<"D","R","O","P">>, <<"T","R","U","N","C","A","T","E">>, <<"A","L","T","E","R">>, <<"C","R","E","A","T","E">>, <<"G","R","A","N","T">>, <<"R","E","V","O","K","E">> }

valid_start_keywords ==
    { <<"S","E","L","E","C","T">>, <<"I","N","S","E","R","T">>, <<"U","P","D","A","T","E">>, <<"D","E","L","E","T","E">>, <<"W","I","T","H">> }

\* a validation that looks at the opening verb alone
validate_verb_only(query_upper) ==
    \E keyword \in valid_start_keywords : StartsWith(query_upper, keyword)

\* OracleQueryTool._validate_sql_query, from query_upper on
validate_upper(query_upper) ==
    IF \E keyword \in dangerous_keywords : Contains(query_upper, keyword)
    THEN FALSE
    ELSE \E keyword \in valid_start_keywords : StartsWith(query_upper, keyword)

\* OracleQueryTool._validate_sql_query
validate_sql_query(query) == validate_upper(Strip(Upper(query)))

DatetimeNowPattern == Lit(<<"D","A","T","E","T","I","M","E","(">>) \o Quote \o Lit(<<"N","O","W">>) \o Quote \o Lit(<<")">>)

StrftimeNowPattern ==
    Lit(<<"S","T","R","F","T","I","M","E","(">>) \o Quote \o Lit(<<"%","Y","-","%","M","-","%","D">>) \o Quote \o Lit(<<",">>) \o SpaceStar
        \o Quote \o Lit(<<"N","O","W">>) \o Quote \o Lit(<<")">>)

\* whether " FROM " occurs in query at or after index b
FromAfter(query, b) ==
    \E j \in (b + 1)..(Len(query) - 4) :
        /\ IsSpace(query[j - 1])
        /\ Upper(SubSeq(query, j, j + 3)) = <<"F","R","O","M">>
        /\ IsSpace(query[j + 4])

\* SELECT at index a, then white space up to index b, then no " FROM "
SelectAt(query, a, b) ==
    /\ Upper(Slice(query, a, a + 5)) = <<"S","E","L","E","C","T">>
    /\ b > a + 6
    /\ ~ FromAfter(query, b)

SelectFrom1(query, a) == SelectAt(query, a, SkipSpace(query, a + 6))

\* re.match(r'^\s*SELECT\s+(?!.*\s+FROM\s+)', query, re.IGNORECASE): a SELECT
\* after which no " FROM " follows.  The greedy \s+ decides: a shorter one
\* leaves more text for the lookahead to find FROM in.
SelectWithoutFrom(query) == SelectFrom1(query, SkipSpace(query, 1))

\* the last step of _format_oracle_query: FROM DUAL for a SELECT without FROM
add_dual(oracle_query) ==
    IF SelectWithoutFrom(oracle_query)
    THEN RStrip(RStripChar(oracle_query, ";")) \o <<" ","F","R","O","M"," ","D","U","A","L">>
    ELSE oracle_query

\* OracleQueryTool._format_oracle_query
format_oracle_query(query) ==
    add_dual(
        ReSub(Lit(<<"S","U","B","S","T","R","(">>), <<"S","U","B","S","T","R","(">>,
            ReSub(Lit(<<"L","E","N","G","T","H","(">>), <<"L","E","N","G","T","H","(">>,
                ReSub(StrftimeNowPattern, <<"T","O","_","C","H","A","R","(","S","Y","S","D","A","T","E",","," ","'","Y","Y","Y","Y","-","M","M","-","D","D","'",")">>,
                    ReSub(DatetimeNowPattern, <<"S","Y","S","D","A","T","E">>, query)))))

(***************************************************************************)
(* The embedded SQL store behind DatabaseManager.  A database is           *)
(* [rows, dept_of, mgr_of]: rows[t] is the set of primary keys of table t, *)
(* dept_of[e] the department_id of employee e and mgr_of[k] the manager_id *)
(* of department k (0: NULL).  The seed is the first row                   *)
(* of each seeded table.                                                   *)
(***************************************************************************)

Tables == {"employees", "departments", "orders", "products", "audit_log"}

\* sqlite_master lists the tables in the order _create_sample_tables makes them
TableOrder == <<"employees", "departments", "orders", "products", "audit_log">>

TableText ==
    [t \in Tables |->
        CASE t = "employees" -> <<"e","m","p","l","o","y","e","e","s">>
          [] t = "departments" -> <<"d","e","p","a","r","t","m","e","n","t","s">>
          [] t = "orders" -> <<"o","r","d","e","r","s">>
          [] t = "products" -> <<"p","r","o","d","u","c","t","s">>
          [] t = "audit_log" -> <<"a","u","d","i","t","_","l","o","g">>]

\* the columns of each table, in declaration order
Columns ==
    [t \in Tables |->
        CASE t = "employees" ->
               << <<"e","m","p","l","o","y","e","e","_","i","d">>, <<"f","i","r","s","t","_","n","a","m","e">>, <<"l","a","s","t","_","n","a","m","e">>, <<"e","m","a","i","l">>, <<"p","h","o","n","e","_","n","u","m","b","e","r">>,
                  <<"h","i","r","e","_","d","a","t","e">>, <<"j","o","b","_","i","d">>, <<"s","a","l","a","r","y">>, <<"c","o","m","m","i","s","s","i","o","n","_","p","c","t">>, <<"m","a","n","a","g","e","r","_","i","d">>,
                  <<"d","e","p","a","r","t","m","e","n","t","_","i","d">>, <<"c","r","e","a","t","e","d","_","d","a","t","e">>, <<"m","o","d","i","f","i","e","d","_","d","a","t","e">> >>
          [] t = "departments" ->
               << <<"d","e","p","a","r","t","m","e","n","t","_","i","d">>, <<"d","e","p","a","r","t","m","e","n","t","_","n","a","m","e">>, <<"m","a","n","a","g","e","r","_","i","d">>, <<"l","o","c","a","t","i","o","n","_","i","d">>,
                  <<"c","r","e","a","t","e","d","_","d","a","t","e">>, <<"m","o","d","i","f","i","e","d","_","d","a","t","e">> >>
          [] t = "orders" ->
               << <<"o","r","d","e","r","_","i","d">>, <<"c","u","s","t","o","m","e","r","_","i","d">>, <<"o","r","d","e","r","_","d","a","t","e">>, <<"s","h","i","p","_","d","a","t","e">>,
                  <<"o","r","d","e","r","_","s","t","a","t","u","s">>, <<"t","o","t","a","l","_","a","m","o","u","n","t">>, <<"d","i","s","c","o","u","n","t","_","a","m","o","u","n","t">>, <<"t","a","x","_","a","m","o","u","n","t">>,
                  <<"c","r","e","a","t","e","d","_","b","y">>, <<"c","r","e","a","t","e","d","_","d","a","t","e">>, <<"m","o","d","i","f","i","e","d","_","d","a","t","e">> >>
          [] t = "products" ->
               << <<"p","r","o","d","u","c","t","_","i","d">>, <<"p","r","o","d","u","c","t","_","n","a","m","e">>, <<"p","r","o","d","u","c","t","_","c","o","d","e">>, <<"c","a","t","e","g","o","r","y","_","i","d">>,
                  <<"u","n","i","t","_","p","r","i","c","e">>, <<"u","n","i","t","s","_","i","n","_","s","t","o","c","k">>, <<"d","i","s","c","o","n","t","i","n","u","e","d">>, <<"c","r","e","a","t","e","d","_","d","a","t","e">>,
                  <<"m","o","d","i","f","i","e","d","_","d","a","t","e">> >>
          [] t = "audit_log" ->
               << <<"a","u","d","i","t","_","i","d">>, <<"t","a","b","l","e","_","n","a","m","e">>, <<"o","p","e","r","a","t","i","o","n">>, <<"o","l","d","_","v","a","l","u","e","s">>, <<"n","e","w","_","v","a","l","u","e","s">>,
                  <<"u","s","e","r","_","n","a","m","e">>, <<"s","e","s","s","i","o","n","_","i","d">>, <<"t","i","m","e","s","t","a","m","p">>, <<"i","p","_","a","d","d","r","e","s","s">> >>]

\* department ids of the statements: 10 is seeded (Administration), 70 is free
DeptIds == {10, 70}

\* employee ids of the statements: 100 is seeded (Steven King), 200 is free
EmpIds == {100, 200}

\* manager_id of the seeded employees that have one; no statement of the
\* model changes a manager_id
manager_id == [e \in 101..105 |-> CASE e \in {101, 102} -> 100
                                      [] e = 103 -> 102
                                      [] e \in {104, 105} -> 103]

\* The database after _insert_sample_data: a table is the set of the
\* primary keys of its rows; dept_of is the department_id of each employee,
\* mgr_of the manager_id of each department (None for the seeded ones).
SeedDB ==
    [rows |-> [t \in Tables |->
                  CASE t = "employees" -> 100..105
                    [] t = "departments" -> {10, 20, 30, 40, 50, 60}
                    [] t = "orders" -> 1001..1004
                    [] t = "products" -> 1..5
                    [] t = "audit_log" -> {}],
     dept_of |-> [e \in 100..105 |-> IF e <= 102 THEN 10 ELSE 50],
     mgr_of |-> [k \in {10, 20, 30, 40, 50, 60} |-> 0]]

Digit == <<"0","1","2","3","4","5","6","7","8","9">>

\* str(n) for n >= 0
RECURSIVE Decimal(_)
Decimal(n) ==
    IF n < 10 THEN <<Digit[n + 1]>> ELSE Decimal(n \div 10) \o <<Digit[(n % 10) + 1]>>

RECURSIVE SortedSeq(_)
SortedSeq(S) ==
    IF S = {} THEN <<>>
    ELSE LET m == CHOOSE x \in S : \A y \in S : x <= y
         IN  <<m>> \o SortedSeq(S \ {m})

\* The statements the engine executes on the seeded tables: a verb, a table,
\* a column (SELECT; 0: every column), a key (0: no WHERE clause) and a
\* department (the employee's department_id); an UPDATE of departments has
\* the manager_id it sets.
Statements ==
    UNION { [verb : {"SELECT"}, table : {t}, col : 0..Len(Columns[t]), key : {0}, dept : {0}]
            : t \in Tables }
    \cup [verb : {"INSERT", "DELETE"}, table : {"departments"}, col : {0},
          key : DeptIds, dept : {0}]
    \cup [verb : {"DELETE"}, table : {"departments"}, col : {0}, key : {0}, dept : {0}]
    \cup [verb : {"INSERT", "UPDATE"}, table : {"employees"}, col : {0},
          key : EmpIds, dept : DeptIds]
    \cup [verb : {"DELETE"}, table : {"employees"}, col : {0}, key : EmpIds, dept : {0}]
    \cup [verb : {"DELETE"}, table : {"employees", "orders", "products"}, col : {0},
          key : {0}, dept : {0}]
    \cup [verb : {"UPDATE"}, table : {"departments"}, col : {0}, key : DeptIds, dept : {0},
          manager : EmpIds]

\* the SQL text of a statement
Render(st) ==
    CASE st.verb = "SELECT" ->
           <<"S","E","L","E","C","T"," ">> \o (IF st.col = 0 THEN <<"*">> ELSE Columns[st.table][st.col])
               \o <<" ","F","R","O","M"," ">> \o TableText[st.table]
      [] st.verb = "INSERT" /\ st.table = "departments" ->
           <<"I","N","S","E","R","T"," ","I","N","T","O"," ","d","e","p","a","r","t","m","e","n","t","s"," ","(","d","e","p","a","r","t","m","e","n","t","_","i","d",","," ","d","e","p","a","r","t","m","e","n","t","_","n","a","m","e",")"," ","V","A","L","U","E","S"," ","(">>
               \o Decimal(st.key) \o <<","," ","'","N","e","w","'",")">>
      [] st.verb = "INSERT" /\ st.table = "employees" ->
           <<"I","N","S","E","R","T"," ","I","N","T","O"," ","e","m","p","l","o","y","e","e","s"," ","(","e","m","p","l","o","y","e","e","_","i","d",","," ","f","i","r","s","t","_","n","a","m","e",","," ","l","a","s","t","_","n","a","m","e",","," ","d","e","p","a","r","t","m","e","n","t","_","i","d",")"," ","V","A","L","U","E","S"," ","(">>
               \o Decimal(st.key) \o <<","," ","'","A","'",","," ","'","B","'",","," ">> \o Decimal(st.dept) \o <<")">>
      [] st.verb = "UPDATE" /\ st.table = "employees" ->
           <<"U","P","D","A","T","E"," ","e","m","p","l","o","y","e","e","s"," ","S","E","T"," ","d","e","p","a","r","t","m","e","n","t","_","i","d"," ","="," ">> \o Decimal(st.dept)
               \o <<" ","W","H","E","R","E"," ","e","m","p","l","o","y","e","e","_","i","d"," ","="," ">> \o Decimal(st.key)
      [] st.verb = "UPDATE" /\ st.table = "departments" ->
           <<"U","P","D","A","T","E"," ","d","e","p","a","r","t","m","e","n","t","s"," ","S","E","T"," ","m","a","n","a","g","e","r","_","i","d"," ","="," ">> \o Decimal(st.manager)
               \o <<" ","W","H","E","R","E"," ","d","e","p","a","r","t","m","e","n","t","_","i","d"," ","="," ">> \o Decimal(st.key)
      [] st.verb = "DELETE" ->
           <<"D","E","L","E","T","E"," ","F","R","O","M"," ">> \o TableText[st.table]
               \o (IF st.key = 0 THEN <<>>
                   ELSE <<" ","W","H","E","R","E"," ">> \o Columns[st.table][1] \o <<" ","="," ">> \o Decimal(st.key))

StatementText == [st \in Statements |-> Render(st)]

StatementTexts == {StatementText[st] : st \in Statements}

\* the statement a text renders
StatementOf == [s \in StatementTexts |-> CHOOSE st \in Statements : StatementText[st] = s]

\* the catalog queries OracleSchemaExplorer builds around a table name
TableInfoSelect ==
    <<"S","E","L","E","C","T"," ","n","a","m","e"," ","a","s"," ","c","o","l","u","m","n","_","n","a","m","e",","," ","t","y","p","e"," ","a","s"," ","d","a","t","a","_","t","y","p","e",","," ","'","2","0","'"," ","a","s"," ","d","a","t","a","_","l","e","n","g","t","h",","," ","'","Y","E","S","'"," ","a","s"," ","n","u","l","l","a","b","l","e",","," ","'","'"," ","a","s"," ","d","e","f","a","u","l","t","_","v","a","l","u","e"," ","F","R","O","M"," ","p","r","a","g","m","a","_","t","a","b","l","e","_","i","n","f","o","(","'">>

\* the f-string of _get_table_schema opens and closes with white space
TableInfoPrefix == <<" ">> \o TableInfoSelect

TableInfoSuffix == <<"'",")"," ">>

ColumnCountPrefix == <<"S","E","L","E","C","T"," ","C","O","U","N","T","(","*",")"," ","a","s"," ","c","o","l","_","c","o","u","n","t"," ","F","R","O","M"," ","p","r","a","g","m","a","_","t","a","b","l","e","_","i","n","f","o","(","'">>

ColumnCountSuffix == <<"'",")">>

RowCountPrefix == <<"S","E","L","E","C","T"," ","C","O","U","N","T","(","*",")"," ","a","s"," ","r","o","w","_","c","o","u","n","t"," ","F","R","O","M"," ">>

TablesQuery == <<"S","E","L","E","C","T"," ","n","a","m","e"," ","F","R","O","M"," ","s","q","l","i","t","e","_","m","a","s","t","e","r"," ","W","H","E","R","E"," ","t","y","p","e","=","'","t","a","b","l","e","'">>

\* the text between a prefix and a suffix
Between(s, prefix, suffix) == SubSeq(s, Len(prefix) + 1, Len(s) - Len(suffix))

Wrapped(s, prefix, suffix) ==
    /\ Len(s) >= Len(prefix) + Len(suffix)
    /\ StartsWith(s, prefix)
    /\ EndsWith(s, suffix)
    /\ \A i \in (Len(prefix) + 1)..(Len(s) - Len(suffix)) : s[i] # "'"

\* the table of a name (the engine ignores its case), "none" when there is none
TableOfLower(lower_name) ==
    IF \E t \in Tables : TableText[t] = lower_name
    THEN CHOOSE t \in Tables : TableText[t] = lower_name
    ELSE "none"

TableNamed(name) == TableOfLower(Lower(name))

\* a row count of the table named after RowCountPrefix
ParseRowCount(table) ==
    IF table = "none" THEN [verb |-> "REJECTED"] ELSE [verb |-> "ROW_COUNT", table |-> table]

\* a query whose answer does not depend on the rows of the tables
Answering(rows, columns) == [verb |-> "ANSWER", rows |-> rows, columns |-> columns]

TablesSorted == <<"audit_log", "departments", "employees", "orders", "products">>

\* The statements the servers build themselves that the engine accepts: the
\* lists of sqlite_master, the aggregates (one row), and SELECT * with a
\* LIMIT no table of the model reaches.  Every other statement they build
\* names FETCH FIRST, the table customers or the column budget, which the
\* engine rejects.
ServerStatements ==
    [s \in { <<"S","E","L","E","C","T"," ","n","a","m","e"," ","a","s"," ","t","a","b","l","e","_","n","a","m","e"," ","F","R","O","M"," ","s","q","l","i","t","e","_","m","a","s","t","e","r"," ","W","H","E","R","E"," ","t","y","p","e","=","'","t","a","b","l","e","'"," ","O","R","D","E","R"," ","B","Y"," ","n","a","m","e">>,
             <<"S","E","L","E","C","T"," ","n","a","m","e"," ","a","s"," ","t","a","b","l","e","_","n","a","m","e",","," ","t","y","p","e"," ","F","R","O","M"," ","s","q","l","i","t","e","_","m","a","s","t","e","r"," ","W","H","E","R","E"," ","t","y","p","e","=","'","t","a","b","l","e","'"," ","O","R","D","E","R"," ","B","Y"," ","n","a","m","e">>,
             <<"S","E","L","E","C","T"," ","n","a","m","e"," ","a","s"," ","t","a","b","l","e","_","n","a","m","e",","," ","s","q","l"," ","F","R","O","M"," ","s","q","l","i","t","e","_","m","a","s","t","e","r"," ","W","H","E","R","E"," ","t","y","p","e","=","'","t","a","b","l","e","'"," ","L","I","M","I","T"," ","5">>,
             <<"S","E","L","E","C","T"," ","C","O","U","N","T","(","*",")"," ","a","s"," ","t","a","b","l","e","_","c","o","u","n","t"," ","F","R","O","M"," ","s","q","l","i","t","e","_","m","a","s","t","e","r"," ","W","H","E","R","E"," ","t","y","p","e","=","'","t","a","b","l","e","'">>,
             <<"S","E","L","E","C","T"," ","A","V","G","(","s","a","l","a","r","y",")"," ","a","s"," ","a","v","e","r","a","g","e","_","s","a","l","a","r","y",","," ","M","I","N","(","s","a","l","a","r","y",")"," ","a","s"," ","m","i","n","_","s","a","l","a","r","y",","," ","M","A","X","(","s","a","l","a","r","y",")"," ","a","s"," ","m","a","x","_","s","a","l","a","r","y"," ","F","R","O","M"," ","e","m","p","l","o","y","e","e","s">>,
             <<"S","E","L","E","C","T"," ","A","V","G","(","t","o","t","a","l","_","a","m","o","u","n","t",")"," ","a","s"," ","a","v","e","r","a","g","e","_","o","r","d","e","r",","," ","M","I","N","(","t","o","t","a","l","_","a","m","o","u","n","t",")"," ","a","s"," ","m","i","n","_","o","r","d","e","r",","," ","M","A","X","(","t","o","t","a","l","_","a","m","o","u","n","t",")"," ","a","s"," ","m","a","x","_","o","r","d","e","r"," ","F","R","O","M"," ","o","r","d","e","r","s">>,
             <<"S","E","L","E","C","T"," ","*"," ","F","R","O","M"," ","e","m","p","l","o","y","e","e","s"," ","L","I","M","I","T"," ","1","0">>,
             <<"S","E","L","E","C","T"," ","*"," ","F","R","O","M"," ","o","r","d","e","r","s"," ","L","I","M","I","T"," ","1","0">> } |->
        CASE s = <<"S","E","L","E","C","T"," ","n","a","m","e"," ","a","s"," ","t","a","b","l","e","_","n","a","m","e"," ","F","R","O","M"," ","s","q","l","i","t","e","_","m","a","s","t","e","r"," ","W","H","E","R","E"," ","t","y","p","e","=","'","t","a","b","l","e","'"," ","O","R","D","E","R"," ","B","Y"," ","n","a","m","e">> ->
               Answering(TablesSorted, << <<"t","a","b","l","e","_","n","a","m","e">> >>)
          [] s = <<"S","E","L","E","C","T"," ","n","a","m","e"," ","a","s"," ","t","a","b","l","e","_","n","a","m","e",","," ","t","y","p","e"," ","F","R","O","M"," ","s","q","l","i","t","e","_","m","a","s","t","e","r"," ","W","H","E","R","E"," ","t","y","p","e","=","'","t","a","b","l","e","'"," ","O","R","D","E","R"," ","B","Y"," ","n","a","m","e">> ->
               Answering(TablesSorted, << <<"t","a","b","l","e","_","n","a","m","e">>, <<"t","y","p","e">> >>)
          [] s = <<"S","E","L","E","C","T"," ","n","a","m","e"," ","a","s"," ","t","a","b","l","e","_","n","a","m","e",","," ","s","q","l"," ","F","R","O","M"," ","s","q","l","i","t","e","_","m","a","s","t","e","r"," ","W","H","E","R","E"," ","t","y","p","e","=","'","t","a","b","l","e","'"," ","L","I","M","I","T"," ","5">> ->
               Answering(TableOrder, << <<"t","a","b","l","e","_","n","a","m","e">>, <<"s","q","l">> >>)
          [] s = <<"S","E","L","E","C","T"," ","C","O","U","N","T","(","*",")"," ","a","s"," ","t","a","b","l","e","_","c","o","u","n","t"," ","F","R","O","M"," ","s","q","l","i","t","e","_","m","a","s","t","e","r"," ","W","H","E","R","E"," ","t","y","p","e","=","'","t","a","b","l","e","'">> ->
               Answering(<<Len(TableOrder)>>, << <<"t","a","b","l","e","_","c","o","u","n","t">> >>)
          [] s = <<"S","E","L","E","C","T"," ","A","V","G","(","s","a","l","a","r","y",")"," ","a","s"," ","a","v","e","r","a","g","e","_","s","a","l","a","r","y",","," ","M","I","N","(","s","a","l","a","r","y",")"," ","a","s"," ","m","i","n","_","s","a","l","a","r","y",","," ","M","A","X","(","s","a","l","a","r","y",")"," ","a","s"," ","m","a","x","_","s","a","l","a","r","y"," ","F","R","O","M"," ","e","m","p","l","o","y","e","e","s">> ->
               Answering(<<"aggregates">>,
                         << <<"a","v","e","r","a","g","e","_","s","a","l","a","r","y">>, <<"m","i","n","_","s","a","l","a","r","y">>, <<"m","a","x","_","s","a","l","a","r","y">> >>)
          [] s = <<"S","E","L","E","C","T"," ","A","V","G","(","t","o","t","a","l","_","a","m","o","u","n","t",")"," ","a","s"," ","a","v","e","r","a","g","e","_","o","r","d","e","r",","," ","M","I","N","(","t","o","t","a","l","_","a","m","o","u","n","t",")"," ","a","s"," ","m","i","n","_","o","r","d","e","r",","," ","M","A","X","(","t","o","t","a","l","_","a","m","o","u","n","t",")"," ","a","s"," ","m","a","x","_","o","r","d","e","r"," ","F","R","O","M"," ","o","r","d","e","r","s">> ->
               Answering(<<"aggregates">>,
                         << <<"a","v","e","r","a","g","e","_","o","r","d","e","r">>, <<"m","i","n","_","o","r","d","e","r">>, <<"m","a","x","_","o","r","d","e","r">> >>)
          [] s = <<"S","E","L","E","C","T"," ","*"," ","F","R","O","M"," ","e","m","p","l","o","y","e","e","s"," ","L","I","M","I","T"," ","1","0">> ->
               [verb |-> "SELECT", table |-> "employees", col |-> 0, key |-> 0, dept |-> 0]
          [] s = <<"S","E","L","E","C","T"," ","*"," ","F","R","O","M"," ","o","r","d","e","r","s"," ","L","I","M","I","T"," ","1","0">> ->
               [verb |-> "SELECT", table |-> "orders", col |-> 0, key |-> 0, dept |-> 0]]

\* What the engine makes of a statement's text s, stripped: a statement of
\* Statements, a catalog query, or a text it rejects (a syntax error, an
\* unknown table).
ParseStripped(s) ==
    IF s \in StatementTexts
    THEN StatementOf[s]
    ELSE IF s = TablesQuery
    THEN [verb |-> "TABLES"]
    ELSE IF Wrapped(s, TableInfoSelect, ColumnCountSuffix)
    THEN [verb |-> "TABLE_INFO",
          table |-> TableNamed(Between(s, TableInfoSelect, ColumnCountSuffix))]
    ELSE IF Wrapped(s, ColumnCountPrefix, ColumnCountSuffix)
    THEN [verb |-> "COLUMN_COUNT",
          table |-> TableNamed(Between(s, ColumnCountPrefix, ColumnCountSuffix))]
    ELSE IF StartsWith(s, RowCountPrefix)
    THEN ParseRowCount(TableNamed(Tail0(s, Len(RowCountPrefix) + 1)))
    ELSE IF s \in DOMAIN ServerStatements
    THEN ServerStatements[s]
    ELSE [verb |-> "REJECTED"]

\* The engine ignores surrounding whitespace and trailing semicolons.
ParseSql(text) == ParseStripped(Strip(RStripChar(Strip(text), ";")))

\* The outcome of one statement on one connection: [db, ok, rows, columns,
\* rowcount].  foreign_keys tells whether the connection enforces the foreign
\* keys (PRAGMA foreign_keys = ON).
Engine(d, st, foreign_keys) ==
    LET fail == [db |-> d, ok |-> FALSE, rows |-> <<>>, columns |-> <<>>, rowcount |-> 0]
        done(nd, n) == [db |-> nd, ok |-> TRUE, rows |-> <<>>, columns |-> <<>>, rowcount |-> n]
        answer(rows, columns) ==
            [db |-> d, ok |-> TRUE, rows |-> rows, columns |-> columns, rowcount |-> 0]
        withRows(t, S) == [d.rows EXCEPT ![t] = S]
        employees == d.rows["employees"]
        departments == d.rows["departments"]
    IN  CASE st.verb = "REJECTED" -> fail
          [] st.verb = "ANSWER" -> answer(st.rows, st.columns)
          [] st.verb = "TABLES" ->
               answer(TableOrder, << <<"n","a","m","e">> >>)
          [] st.verb = "TABLE_INFO" ->
               answer(IF st.table = "none" THEN <<>> ELSE Columns[st.table],
                      << <<"c","o","l","u","m","n","_","n","a","m","e">>, <<"d","a","t","a","_","t","y","p","e">>, <<"d","a","t","a","_","l","e","n","g","t","h">>, <<"n","u","l","l","a","b","l","e">>,
                         <<"d","e","f","a","u","l","t","_","v","a","l","u","e">> >>)
          [] st.verb = "COLUMN_COUNT" ->
               answer(<<IF st.table = "none" THEN 0 ELSE Len(Columns[st.table])>>,
                      << <<"c","o","l","_","c","o","u","n","t">> >>)
          [] st.verb = "ROW_COUNT" ->
               answer(<<Cardinality(d.rows[st.table])>>, << <<"r","o","w","_","c","o","u","n","t">> >>)
          [] st.verb = "SELECT" ->
               answer(SortedSeq(d.rows[st.table]),
                      IF st.col = 0 THEN Columns[st.table] ELSE <<Columns[st.table][st.col]>>)
          [] st.verb = "INSERT" /\ st.table = "departments" ->
               IF st.key \in departments THEN fail
               ELSE done([d EXCEPT !.rows = withRows("departments", departments \cup {st.key}),
                                   !.mgr_of = [k \in departments \cup {st.key} |->
                                                  IF k = st.key THEN 0 ELSE d.mgr_of[k]]], 1)
          [] st.verb = "INSERT" /\ st.table = "employees" ->
               IF st.key \in employees THEN fail
               ELSE IF foreign_keys /\ st.dept \notin departments THEN fail
               ELSE done([d EXCEPT !.rows = withRows("employees", employees \cup {st.key}),
                                   !.dept_of = [e \in employees \cup {st.key} |->
                                                   IF e = st.key THEN st.dept ELSE d.dept_of[e]]], 1)
          [] st.verb = "UPDATE" /\ st.table = "employees" ->
               IF st.key \notin employees THEN done(d, 0)
               ELSE IF foreign_keys /\ st.dept \notin departments THEN fail
               ELSE done([d EXCEPT !.dept_of[st.key] = st.dept], 1)
          [] st.verb = "UPDATE" /\ st.table = "departments" ->
               IF st.key \notin departments THEN done(d, 0)
               ELSE IF foreign_keys /\ st.manager \notin employees THEN fail
               ELSE done([d EXCEPT !.mgr_of[st.key] = st.manager], 1)
          [] st.verb = "DELETE" /\ st.table = "departments" ->
               LET gone == IF st.key = 0 THEN departments ELSE {st.key} \cap departments
               IN  IF foreign_keys /\ \E e \in employees : d.dept_of[e] \in gone
                   THEN fail
                   ELSE done([d EXCEPT !.rows = withRows("departments", departments \ gone),
                                       !.mgr_of = [k \in departments \ gone |-> d.mgr_of[k]]],
                             Cardinality(gone))
          [] st.verb = "DELETE" /\ st.table = "employees" ->
               LET gone == IF st.key = 0 THEN employees ELSE {st.key} \cap employees
               IN  IF foreign_keys
                      /\ \/ \E e \in (DOMAIN manager_id \cap employees) \ gone :
                                manager_id[e] \in gone
                         \/ \E k \in departments : d.mgr_of[k] \in gone
                   THEN fail
                   ELSE done([d EXCEPT !.rows = withRows("employees", employees \ gone),
                                       !.dept_of = [e \in employees \ gone |-> d.dept_of[e]]],
                             Cardinality(gone))
          [] st.verb = "DELETE" /\ st.table \in {"orders", "products"} ->
               done([d EXCEPT !.rows = withRows(st.table, {})], Cardinality(d.rows[st.table]))

(***************************************************************************)
(* DatabaseManager                                                         *)
(***************************************************************************)

\* dict.get(key, default)
Get(dict, key, default) == IF key \in DOMAIN dict THEN dict[key] ELSE default

\* The dictionary execute_query returns for the engine's outcome of a query
QueryResult(d, query, out) ==
    IF ~ out.ok
    THEN [db |-> d,
          result |-> [status |-> "error", error |-> <<"Database error", "sqlite3.Error">>,
                      error_code |-> "SQL_ERROR", timestamp |-> "start_time"]]
    ELSE IF StartsWith(Upper(Strip(query)), <<"S","E","L","E","C","T">>)
    THEN [db |-> out.db,
          result |-> [status |-> "success", data |-> out.rows, columns |-> out.columns,
                      row_count |-> Len(out.rows), execution_time |-> "elapsed",
                      timestamp |-> "start_time"]]
    ELSE [db |-> out.db,
          result |-> [status |-> "success", rows_affected |-> out.rowcount,
                      last_row_id |-> "lastrowid", execution_time |-> "elapsed",
                      timestamp |-> "start_time"]]

\* execute_query on a connection that was opened without PRAGMA foreign_keys
execute_query_no_pragma(d, query) ==
    QueryResult(d, query, Engine(d, ParseSql(query), FALSE))

\* DatabaseManager.execute_query: the statement runs on a connection of its
\* own, opened by _get_connection with the foreign keys on; a statement that
\* is no SELECT is committed at once; an error of the engine is returned as a
\* dictionary, never raised.  The outcome is [db, result].
execute_query(d, query) == QueryResult(d, query, Engine(d, ParseSql(query), TRUE))

\* threading.get_ident() of the calling threads
Threads == {"T1", "T2"}

Range(f) == {f[x] : x \in DOMAIN f}

\* sqlite3.connect: a connection object distinct from every live one
NewConnection(live) == CHOOSE c \in 1..(Cardinality(live) + 1) :
                          c \notin live /\ \A b \in 1..(c - 1) : b \in live

\* an exception is the sequence of the parts of its message, outermost first;
\* the empty sequence stands for a normal return
NoException == <<>>

\* DatabaseManager.begin_transaction, as one step: [tc, exc]
begin_transaction(tc, thread_id) ==
    [tc |-> [t \in DOMAIN tc \cup {thread_id} |->
                IF t = thread_id THEN NewConnection(Range(tc)) ELSE tc[t]],
     exc |-> NoException]

\* a commit that tolerates a missing transaction, as rollback_transaction does
commit_if_active(tc, thread_id) ==
    [tc |-> [t \in DOMAIN tc \ {thread_id} |-> tc[t]], exc |-> NoException]

\* DatabaseManager.commit_transaction, as one step: [tc, exc].  No statement
\* ever runs on a registered connection (execute_query opens its own), so
\* conn.commit() has nothing to make durable.
commit_transaction(tc, thread_id) ==
    IF thread_id \in DOMAIN tc
    THEN [tc |-> [t \in DOMAIN tc \ {thread_id} |-> tc[t]], exc |-> NoException]
    ELSE [tc |-> tc, exc |-> <<"No active transaction found">>]

\* DatabaseManager.rollback_transaction, as one step: [tc, exc]
rollback_transaction(tc, thread_id) ==
    IF thread_id \in DOMAIN tc
    THEN [tc |-> [t \in DOMAIN tc \ {thread_id} |-> tc[t]], exc |-> NoException]
    ELSE [tc |-> tc, exc |-> NoException]

(***************************************************************************)
(* The Oracle tools.  A tool's _run returns [db, tc, ret, executed]: the   *)
(* database and the transaction registry after the call, the envelope      *)
(* returned (a record: the JSON object) and the calls of execute_query it  *)
(* made, each [query, status].                                             *)
(***************************************************************************)

\* the query_plan OracleQueryTool._format_oracle_result adds for a SELECT
query_plan(data) ==
    [plan_hash_value |-> "1234567890", optimizer_mode |-> "ALL_ROWS", cost |-> 10,
     cardinality |-> Len(data)]

\* dict[key] = value
With(dict, key, value) ==
    [k \in DOMAIN dict \cup {key} |-> IF k = key THEN value ELSE dict[k]]

\* an oracle_result whose rows_affected is the cursor's count of a DML
\* statement rather than len(data)
oracle_result_rowcount(result, data) ==
    [status |-> "success",
     execution_time_ms |-> <<Get(result, "execution_time", 0), "* 1000">>,
     rows_affected |-> Get(result, "rows_affected", Len(data)),
     data |-> data,
     columns |-> Get(result, "columns", <<>>),
     oracle_metadata |-> [session_id |-> "ADB_SESSION_001",
                          database_version |-> "Oracle Database 19c Enterprise Edition",
                          service_name |-> "autonomous_db_high",
                          connection_pool |-> "default_pool",
                          timestamp |-> "now"]]

\* the oracle_result of OracleQueryTool._format_oracle_result
oracle_result(result, data) ==
    [status |-> "success",
     execution_time_ms |-> <<Get(result, "execution_time", 0), "* 1000">>,
     rows_affected |-> Len(data),
     data |-> data,
     columns |-> Get(result, "columns", <<>>),
     oracle_metadata |-> [session_id |-> "ADB_SESSION_001",
                          database_version |-> "Oracle Database 19c Enterprise Edition",
                          service_name |-> "autonomous_db_high",
                          connection_pool |-> "default_pool",
                          timestamp |-> "now"]]

\* OracleQueryTool._format_oracle_result
format_oracle_result(result, query) ==
    IF Get(result, "status", "none") = "error"
    THEN [status |-> "error", error_code |-> "ORA-00942",
          error_message |-> Get(result, "error", <<"Unknown Oracle error">>),
          timestamp |-> "now"]
    ELSE IF StartsWith(Strip(Upper(query)), <<"S","E","L","E","C","T">>)
    THEN With(oracle_result(result, Get(result, "data", <<>>)), "query_plan",
              query_plan(Get(result, "data", <<>>)))
    ELSE oracle_result(result, Get(result, "data", <<>>))

\* what a tool's _run hands back: the database and the registry after the
\* call, the envelope returned, the execute_query calls made
Outcome(d, tc, ret, executed) == [db |-> d, tc |-> tc, ret |-> ret, executed |-> executed]

\* the record of one execute_query call
Executed(query, result) == <<[query |-> query, status |-> result.status]>>

\* OracleQueryTool._run, after the query was executed
query_executed(tc, oracle_formatted_query, out) ==
    Outcome(out.db, tc, format_oracle_result(out.result, oracle_formatted_query),
            Executed(oracle_formatted_query, out.result))

\* OracleQueryTool._run, from the formatted query on
query_formatted(d, tc, oracle_formatted_query) ==
    query_executed(tc, oracle_formatted_query, execute_query(d, oracle_formatted_query))

\* the envelope of OracleQueryTool._run's except branch
QueryError(exc) ==
    [status |-> "error", error_code |-> "ORA-00001",
     error_message |-> <<"Oracle query execution failed">> \o exc, timestamp |-> "now"]

\* OracleQueryTool._run
OracleQueryTool_run(d, tc, sql_query) ==
    IF ~ validate_sql_query(sql_query)
    THEN Outcome(d, tc, QueryError(<<"Invalid SQL query format">>), <<>>)
    ELSE query_formatted(d, tc, format_oracle_query(sql_query))

\* result.get("data", [{}])[0].get(name, 0): the count of a one-row answer,
\* 0 when the query failed or has no row
CountOf(result) ==
    IF "data" \in DOMAIN result /\ Len(result.data) > 0 THEN result.data[1] ELSE 0

\* a count and the execute_query call that gave it
Counted(query, result) == [count |-> CountOf(result), executed |-> Executed(query, result)]

CountQuery(d, query) == Counted(query, execute_query(d, query).result)

\* OracleSchemaExplorer._get_table_row_count: [count, executed]
get_table_row_count(d, table_name) == CountQuery(d, RowCountPrefix \o table_name)

\* OracleSchemaExplorer._get_column_count: [count, executed]
get_column_count(d, table_name) ==
    CountQuery(d, ColumnCountPrefix \o table_name \o ColumnCountSuffix)

\* the dictionary OracleSchemaExplorer._get_table_schema returns
table_schema(table_name, table_info_query, result, num_rows) ==
    [executed |-> Executed(table_info_query, result) \o num_rows.executed,
     ret |-> [status |-> "success",
              table_name |-> Upper(table_name),
              schema_name |-> "CURRENT_USER",
              columns |-> Get(result, "data", <<>>),
              indexes |-> <<[index_name |-> Upper(table_name) \o <<"_","P","K">>,
                             index_type |-> "UNIQUE", columns |-> <<"ID">>,
                             tablespace |-> "DATA"]>>,
              constraints |-> <<[constraint_name |-> Upper(table_name) \o <<"_","P","K">>,
                                 constraint_type |-> "PRIMARY KEY", columns |-> <<"ID">>,
                                 status |-> "ENABLED"]>>,
              oracle_metadata |-> [tablespace |-> "DATA", table_type |-> "TABLE",
                                   created |-> "now", last_analyzed |-> "now",
                                   num_rows |-> num_rows.count]]]

table_schema_query(d, table_name, table_info_query) ==
    table_schema(table_name, table_info_query, execute_query(d, table_info_query).result,
                 get_table_row_count(d, table_name))

\* OracleSchemaExplorer._get_table_schema: [ret, executed]
get_table_schema(d, table_name) ==
    table_schema_query(d, table_name, TableInfoPrefix \o table_name \o TableInfoSuffix)

\* the table_info of one table in _get_schema_overview, with the calls made
table_info(table, rows, cols) ==
    [info |-> [table_name |-> Upper(table), row_count |-> rows.count,
               column_count |-> cols.count],
     executed |-> rows.executed \o cols.executed]

\* the loop of _get_schema_overview over the tables
overview_tables(d, tables) ==
    [i \in 1..Len(tables) |->
        table_info(TableText[tables[i]], get_table_row_count(d, TableText[tables[i]]),
                   get_column_count(d, TableText[tables[i]]))]

\* the dictionary OracleSchemaExplorer._get_schema_overview returns
schema_overview(result, infos) ==
    [executed |-> Executed(TablesQuery, result)
                  \o Join([i \in 1..Len(infos) |-> infos[i].executed]),
     ret |-> [status |-> "success",
              schema_name |-> "CURRENT_USER",
              total_tables |-> Len(infos),
              tables |-> [i \in 1..Len(infos) |-> infos[i].info],
              oracle_metadata |-> [database_version |-> "Oracle Database 19c",
                                   service_name |-> "autonomous_db_high",
                                   default_tablespace |-> "DATA",
                                   timestamp |-> "now"]]]

overview_of(d, result) == schema_overview(result, overview_tables(d, Get(result, "data", <<>>)))

\* OracleSchemaExplorer._get_schema_overview: [ret, executed]
get_schema_overview(d) == overview_of(d, execute_query(d, TablesQuery).result)

schema_outcome(d, tc, schema_info) == Outcome(d, tc, schema_info.ret, schema_info.executed)

\* OracleSchemaExplorer._run; an empty table_name (None, "") asks for the
\* overview.  The catalog queries are SELECTs: the database is as before.
OracleSchemaExplorer_run(d, tc, table_name) ==
    schema_outcome(d, tc, IF table_name # <<>> THEN get_table_schema(d, table_name)
                          ELSE get_schema_overview(d))

\* statement[:100] + "..." if len(statement) > 100 else statement
Shortened(statement) ==
    IF Len(statement) > 100 THEN SubSeq(statement, 1, 100) \o <<".",".",".">> ELSE statement

\* the statement_results entry of a statement that ran
statement_result(i, statement, result) ==
    [statement_number |-> i, status |-> "success",
     rows_affected |-> Len(Get(result, "data", <<>>)),
     statement |-> Shortened(statement)]

\* the loop's outcome from the outcome of statement i and that of the rest
statements_ran(i, statement, out, rest) ==
    [db |-> rest.db,
     results |-> <<statement_result(i, statement, out.result)>> \o rest.results,
     executed |-> Executed(statement, out.result) \o rest.executed]

\* The loop of OracleTransactionTool._begin_transaction over sql_statements[i..]:
\* [db, results, executed].  execute_query returns its errors, so the loop's
\* except branch (rollback and raise) is never entered.
RECURSIVE begin_statements(_, _, _)
statement_executed(sql_statements, i, out) ==
    statements_ran(i, sql_statements[i], out, begin_statements(out.db, sql_statements, i + 1))

begin_statements(d, sql_statements, i) ==
    IF i > Len(sql_statements)
    THEN [db |-> d, results |-> <<>>, executed |-> <<>>]
    ELSE statement_executed(sql_statements, i, execute_query(d, sql_statements[i]))

\* the envelope of OracleTransactionTool._run's except branch
TransactionError(exc) ==
    [status |-> "error", error_code |-> "ORA-02049",
     error_message |-> <<"Transaction operation failed">> \o exc, timestamp |-> "now"]

\* the envelope of a BEGIN that ran its statements
begin_envelope(sql_statements, results) ==
    [status |-> "success", operation |-> "BEGIN",
     transaction_id |-> "TXN_now",
     statements_executed |-> Len(sql_statements),
     statement_results |-> results,
     oracle_metadata |-> [isolation_level |-> "READ_COMMITTED", autocommit |-> FALSE,
                          session_id |-> "ADB_SESSION_001"],
     timestamp |-> "now"]

begin_ran(tc, sql_statements, ran) ==
    Outcome(ran.db, tc, begin_envelope(sql_statements, ran.results), ran.executed)

begin_begun(d, begun, sql_statements) ==
    IF begun.exc # NoException
    THEN Outcome(d, begun.tc, TransactionError(<<"Failed to begin transaction">> \o begun.exc),
                 <<>>)
    ELSE begin_ran(begun.tc, sql_statements, begin_statements(d, sql_statements, 1))

\* OracleTransactionTool._begin_transaction
tool_begin_transaction(d, tc, thread_id, sql_statements) ==
    begin_begun(d, begin_transaction(tc, thread_id), sql_statements)

commit_envelope ==
    [status |-> "success", operation |-> "COMMIT",
     message |-> "Transaction committed successfully",
     oracle_metadata |-> [scn |-> "12345678", commit_timestamp |-> "now",
                          session_id |-> "ADB_SESSION_001"],
     timestamp |-> "now"]

rollback_envelope ==
    [status |-> "success", operation |-> "ROLLBACK",
     message |-> "Transaction rolled back successfully",
     oracle_metadata |-> [rollback_timestamp |-> "now", session_id |-> "ADB_SESSION_001"],
     timestamp |-> "now"]

\* a commit or rollback done: its envelope, or the error of what it raised
transaction_ended(d, out, envelope, failure) ==
    Outcome(d, out.tc,
            IF out.exc # NoException THEN TransactionError(<<failure>> \o out.exc)
            ELSE envelope,
            <<>>)

\* OracleTransactionTool._commit_transaction
tool_commit_transaction(d, tc, thread_id) ==
    transaction_ended(d, commit_transaction(tc, thread_id), commit_envelope,
                      "Failed to commit transaction")

\* OracleTransactionTool._rollback_transaction
tool_rollback_transaction(d, tc, thread_id) ==
    transaction_ended(d, rollback_transaction(tc, thread_id), rollback_envelope,
                      "Failed to rollback transaction")

\* OracleTransactionTool._run, from the upper-cased operation on
transaction_operation(d, tc, thread_id, op, sql_statements) ==
    CASE op = <<"B","E","G","I","N">> -> tool_begin_transaction(d, tc, thread_id, sql_statements)
      [] op = <<"C","O","M","M","I","T">> -> tool_commit_transaction(d, tc, thread_id)
      [] op = <<"R","O","L","L","B","A","C","K">> -> tool_rollback_transaction(d, tc, thread_id)
      [] OTHER -> Outcome(d, tc, TransactionError(<<"Invalid transaction operation">>), <<>>)

\* OracleTransactionTool._run
OracleTransactionTool_run(d, tc, thread_id, operation, sql_statements) ==
    transaction_operation(d, tc, thread_id, Upper(operation), sql_statements)

(***************************************************************************)
(* The HTTP tools.  urlparse is computed on the characters of the URL; a   *)
(* response is [status_code, reason], its headers, body and elapsed time   *)
(* kept as names.                                                          *)
(***************************************************************************)

\* the first position of one of the characters at or after i, Len(s) + 1 if none
RECURSIVE Find(_, _, _)
Find(s, chars, i) ==
    IF i > Len(s) \/ s[i] \in chars THEN i ELSE Find(s, chars, i + 1)

Digits == {Digit[i] : i \in 1..10}

Letters == {LowerAlpha[i] : i \in 1..26} \cup {UpperAlpha[i] : i \in 1..26}

\* urllib.parse.scheme_chars
scheme_chars == Letters \cup Digits \cup {"+", "-", "."}

\* the position of the colon that ends the URL's scheme, 0 if it has none
SchemeEnd(url) ==
    IF /\ Find(url, {":"}, 1) \in 2..Len(url)
       /\ url[1] \in Letters
       /\ \A i \in 1..(Find(url, {":"}, 1) - 1) : url[i] \in scheme_chars
    THEN Find(url, {":"}, 1)
    ELSE 0

\* the netloc of the text after the scheme: what follows "//", up to the
\* first of / ? #
NetlocAfter(rest) ==
    IF StartsWith(rest, <<"/","/">>)
    THEN Slice(rest, 3, Find(rest, {"/", "?", "#"}, 3) - 1)
    ELSE <<>>

\* urllib.parse.urlparse: [scheme, netloc]
urlparse(url) ==
    [scheme |-> Lower(Slice(url, 1, SchemeEnd(url) - 1)),
     netloc |-> NetlocAfter(Tail0(url, SchemeEnd(url) + 1))]

\* the position after the last "@" at or after i
RECURSIVE AfterUserinfo(_, _)
AfterUserinfo(netloc, i) ==
    IF Find(netloc, {"@"}, i) > Len(netloc) THEN i
    ELSE AfterUserinfo(netloc, Find(netloc, {"@"}, i) + 1)

\* the host of a netloc without userinfo: what the brackets hold, or what
\* precedes the port
HostOf(hostinfo) ==
    IF StartsWith(hostinfo, <<"[">>)
    THEN Slice(hostinfo, 2, Find(hostinfo, {"]"}, 1) - 1)
    ELSE Slice(hostinfo, 1, Find(hostinfo, {":"}, 1) - 1)

\* urllib.parse: the hostname of a parsed URL, "" for none
hostname(parsed) == Lower(HostOf(Tail0(parsed.netloc, AfterUserinfo(parsed.netloc, 1))))

blocked_hosts == { <<"l","o","c","a","l","h","o","s","t">>, <<"1","2","7",".","0",".","0",".","1">>, <<"0",".","0",".","0",".","0">>, <<":",":","1">> }

\* APICallTool._validate_url, from the parsed URL on
validate_parsed(parsed) ==
    IF parsed.scheme \notin { <<"h","t","t","p">>, <<"h","t","t","p","s">> } THEN FALSE
    ELSE IF parsed.netloc = <<>> THEN FALSE
    ELSE ~ \E host \in blocked_hosts : Contains(Lower(parsed.netloc), host)

\* APICallTool._validate_url
validate_url(url) == validate_parsed(urlparse(url))

\* The HTTP client libraries (requests, aiohttp) send a request only to an
\* absolute http or https URL that names a host; for any other URL they
\* raise before anything is sent.
Sendable(url) ==
    urlparse(url).scheme \in { <<"h","t","t","p">>, <<"h","t","t","p","s">> } /\ hostname(urlparse(url)) # <<>>

\* what the network answers to a request that is sent: a response, or an
\* exception of the client
Responses ==
    { [kind |-> "response", status_code |-> 200, reason |-> "OK"],
      [kind |-> "response", status_code |-> 404, reason |-> "Not Found"],
      [kind |-> "response", status_code |-> 500, reason |-> "Internal Server Error"] }

Failures ==
    { [kind |-> "Timeout"], [kind |-> "ConnectionError"] }

NetworkOutcomes == Responses \cup Failures

\* session.request(**request_kwargs): the outcome of the call and the
\* request it put on the wire, if any
http_request(url, method, outcome) ==
    IF Sendable(url)
    THEN [outcome |-> outcome, sent |-> <<[method |-> Upper(method), url |-> url]>>]
    ELSE [outcome |-> [kind |-> "InvalidURL"], sent |-> <<>>]

\* APICallTool._create_error_response
create_error_response(error_type, error_message, url, method) ==
    [status |-> "error", error_type |-> error_type, error_message |-> error_message,
     url |-> url, method |-> method, timestamp |-> "now"]

StatusOf(status_code) == IF status_code < 400 THEN "success" ELSE "error"

\* result["error_type"], result["error_message"] of a response >= 400
WithHttpError(result, response) ==
    IF response.status_code >= 400
    THEN With(With(result, "error_type", "http_error"), "error_message",
              <<"HTTP", response.status_code, response.reason>>)
    ELSE result

\* APICallTool._process_api_response
process_api_response(response, url, method) ==
    WithHttpError([status |-> StatusOf(response.status_code),
                   status_code |-> response.status_code,
                   headers |-> "response.headers",
                   data |-> "response_data",
                   url |-> url,
                   method |-> method,
                   response_time_ms |-> "response.elapsed",
                   timestamp |-> "now"], response)

\* an async response processed as the synchronous one is, its
\* response_time_ms included
process_async_timed(response, url, method) ==
    With(WithHttpError([status |-> StatusOf(response.status_code),
                        status_code |-> response.status_code,
                        headers |-> "response.headers",
                        data |-> "response_data",
                        url |-> url,
                        method |-> method,
                        timestamp |-> "now"], response),
         "response_time_ms", "response.elapsed")

\* APICallTool._process_async_response
process_async_response(response, url, method) ==
    WithHttpError([status |-> StatusOf(response.status_code),
                   status_code |-> response.status_code,
                   headers |-> "response.headers",
                   data |-> "response_data",
                   url |-> url,
                   method |-> method,
                   timestamp |-> "now"], response)

\* what a tool's call hands back: the envelope and the requests sent
Answer(ret, sent) == [ret |-> ret, sent |-> sent]

\* APICallTool._run, from the request on
api_requested(url, method, got) ==
    Answer(CASE got.outcome.kind = "response" ->
                  process_api_response(got.outcome, url, method)
             [] got.outcome.kind = "Timeout" ->
                  create_error_response("timeout", "Request timeout", url, method)
             [] got.outcome.kind = "ConnectionError" ->
                  create_error_response("connection_error",
                                        "Failed to connect to the API endpoint", url, method)
             [] OTHER ->
                  create_error_response("general_error", got.outcome.kind, url, method),
           got.sent)

\* APICallTool._run
APICallTool_run(url, method, outcome) ==
    IF ~ validate_url(url)
    THEN Answer(create_error_response("general_error", "Invalid URL format", url, method),
                <<>>)
    ELSE api_requested(url, method, http_request(url, method, outcome))

\* APICallTool._arun, from the request on
api_arequested(url, method, got) ==
    Answer(IF got.outcome.kind = "response"
           THEN process_async_response(got.outcome, url, method)
           ELSE create_error_response("async_error", got.outcome.kind, url, method),
           got.sent)

\* APICallTool._arun
APICallTool_arun(url, method, outcome) ==
    api_arequested(url, method, http_request(url, method, outcome))

\* the error envelopes HTTPRequestTool._run and make_api_call build in place
error_result(error_type, error_message, url, method) ==
    [status |-> "error", error_type |-> error_type, error_message |-> error_message,
     url |-> url, method |-> method, timestamp |-> "now"]

\* analysis["error"] of a response >= 400
WithErrorDetails(analysis, response) ==
    IF response.status_code >= 400
    THEN With(analysis, "error",
              [type |-> "http_error", code |-> response.status_code,
               message |-> response.reason, details |-> "parsed_data"])
    ELSE analysis

\* HTTPRequestTool._analyze_response
analyze_response(response, url, method) ==
    WithErrorDetails(
        [status |-> StatusOf(response.status_code),
         request |-> [url |-> url, method |-> method, timestamp |-> "now"],
         response |-> [status_code |-> response.status_code,
                       status_text |-> response.reason,
                       headers |-> "response.headers",
                       content_type |-> "content_type",
                       content_length |-> "len(response.content)",
                       data |-> "parsed_data",
                       encoding |-> "response.encoding"],
         performance |-> [response_time_ms |-> "response.elapsed",
                          size_bytes |-> "len(response.content)"],
         analysis |-> [is_json |-> "is_json",
                       is_success |-> response.status_code \in 200..299,
                       is_redirect |-> response.status_code \in 300..399,
                       is_client_error |-> response.status_code \in 400..499,
                       is_server_error |-> response.status_code >= 500]], response)

\* HTTPRequestTool._run, from the request on
http_requested(url, method, got) ==
    Answer(IF got.outcome.kind = "response"
           THEN analyze_response(got.outcome, url, method)
           ELSE error_result("request_failed", got.outcome.kind, url, method),
           got.sent)

\* HTTPRequestTool._run
HTTPRequestTool_run(url, method, outcome) ==
    http_requested(url, method, http_request(url, method, outcome))

\* the result of SimpleMCPServer.make_api_call for a response
api_call_result(response, url, method) ==
    [status |-> StatusOf(response.status_code),
     status_code |-> response.status_code,
     headers |-> "response.headers",
     data |-> "response_data",
     url |-> url,
     method |-> method,
     response_time_ms |-> "response.elapsed",
     timestamp |-> "now"]

\* SimpleMCPServer.make_api_call, from the request on
api_call_made(url, method, got) ==
    Answer(IF got.outcome.kind = "response"
           THEN api_call_result(got.outcome, url, method)
           ELSE error_result("api_call_failed", got.outcome.kind, url, method),
           got.sent)

\* SimpleMCPServer.make_api_call
make_api_call(url, method, outcome) ==
    api_call_made(url, method, http_request(url, method, outcome))

(***************************************************************************)
(* State                                                                   *)
(***************************************************************************)

VARIABLES
    db,                       \* the committed content of the database file
    transaction_connections,  \* DatabaseManager.transaction_connections
    call,                     \* the tool call made last: [tool, thread, operation, input]
    result,                   \* the envelope it returned
    executed,                 \* the execute_query calls it made
    pool_lock,                \* DatabaseManager.pool_lock: its holder, or Free
    pc,                       \* where each thread stands in the DatabaseManager call it makes
    conn,                     \* the local variable conn of each thread's call
    opened,                   \* the connections sqlite3.connect has opened so far
    latest,                   \* the connection each thread's latest begin_transaction opened
    requests,                 \* the HTTP requests sent so far
    user_query,               \* the sql_query a caller is about to hand to the query tool
    session_state,            \* st.session_state of the chat page: messages, tool_executions
    environ,                  \* os.environ of the process
    events                    \* what the last execute_agent_query did, in the order it did it

vars == <<db, transaction_connections, call, result, executed, pool_lock, pc, conn, opened,
          latest, requests, user_query, session_state, environ, events>>

\* the variables of the caller and of the chat page
app_vars == <<user_query, session_state, environ, events>>

\* the variables of the stepwise transaction manager
manager_vars == <<pool_lock, pc, conn, opened, latest>>

Free == "free"

NoConnection == 0

Idle == [op |-> "none", at |-> "idle"]

\* main: session_state as the first run of the page leaves it; the
\* environment of the process, one variable of the presets set by hand
AppStart ==
    /\ session_state = [messages |-> <<>>, tool_executions |-> <<>>]
    /\ environ = [k \in {"PATH", "LOG_LEVEL"} |->
                     IF k = "PATH" THEN "/usr/bin" ELSE "ERROR"]
    /\ events = <<>>

NoCall == [tool |-> "none", thread |-> "none", operation |-> <<>>, input |-> <<>>]

(***************************************************************************)
(* Spec: calls of the three Oracle tools by the threads of one process.    *)
(***************************************************************************)

\* the longest sql_statements list of a BEGIN
MaxStatements == 2

InsertDept(k) == StatementText[[verb |-> "INSERT", table |-> "departments", col |-> 0,
                                key |-> k, dept |-> 0]]

DeleteDept(k) == StatementText[[verb |-> "DELETE", table |-> "departments", col |-> 0,
                                key |-> k, dept |-> 0]]

InsertEmp(e, k) == StatementText[[verb |-> "INSERT", table |-> "employees", col |-> 0,
                                  key |-> e, dept |-> k]]

SelectFrom(t, c) == StatementText[[verb |-> "SELECT", table |-> t, col |-> c,
                                   key |-> 0, dept |-> 0]]

\* sql_query inputs of the query tool: statements on the seeded tables, a
\* statement on no table, a statement the tool is to refuse
ToolQueries ==
    { SelectFrom("departments", 0), SelectFrom("employees", 12), InsertEmp(200, 70),
      DeleteDept(70), <<"S","E","L","E","C","T"," ","*"," ","F","R","O","M"," ","n","o","s","u","c","h">>, <<"D","R","O","P"," ","T","A","B","L","E"," ","d","e","p","a","r","t","m","e","n","t","s">> }

\* table_name inputs of the schema tool: none, a table, no table, a name
\* that breaks the quoting of the catalog query
SchemaInputs == { <<>>, <<"d","e","p","a","r","t","m","e","n","t","s">>, <<"n","o","s","u","c","h">>, <<"x","'","y">> }

\* statements of a BEGIN: an insert that succeeds while department 70 is
\* free, an insert that fails while department 10 exists
TransactionStatements == { InsertDept(70), InsertDept(10) }

StatementLists ==
    UNION { [1..n -> TransactionStatements] : n \in 0..MaxStatements }

Operations == { <<"b","e","g","i","n">>, <<"C","O","M","M","I","T">>, <<"R","O","L","L","B","A","C","K">>, <<"S","A","V","E","P","O","I","N","T">> }

Init ==
    /\ db = SeedDB
    /\ transaction_connections = <<>>
    /\ call = NoCall
    /\ result = [status |-> "none"]
    /\ executed = <<>>
    /\ pool_lock = Free
    /\ pc = [t \in Threads |-> Idle]
    /\ conn = [t \in Threads |-> NoConnection]
    /\ opened = {}
    /\ latest = [t \in Threads |-> NoConnection]
    /\ requests = <<>>
    /\ user_query = <<>>
    /\ AppStart

Returned(out) ==
    /\ db' = out.db
    /\ transaction_connections' = out.tc
    /\ result' = out.ret
    /\ executed' = out.executed
    /\ UNCHANGED <<manager_vars, requests, app_vars>>

QueryRun(sql_query) ==
    /\ call' = [tool |-> "query", thread |-> "none", operation |-> <<>>, input |-> sql_query]
    /\ Returned(OracleQueryTool_run(db, transaction_connections, sql_query))

SchemaRun(table_name) ==
    /\ call' = [tool |-> "schema", thread |-> "none", operation |-> <<>>, input |-> table_name]
    /\ Returned(OracleSchemaExplorer_run(db, transaction_connections, table_name))

TransactionRun(thread_id, operation, sql_statements) ==
    /\ call' = [tool |-> "transaction", thread |-> thread_id, operation |-> operation,
                input |-> sql_statements]
    /\ Returned(OracleTransactionTool_run(db, transaction_connections, thread_id,
                                          operation, sql_statements))

Query == \E sql_query \in ToolQueries : QueryRun(sql_query)

Schema == \E table_name \in SchemaInputs : SchemaRun(table_name)

Transaction ==
    \E thread_id \in Threads, operation \in Operations :
        \E sql_statements \in (IF Upper(operation) = <<"B","E","G","I","N">> THEN StatementLists ELSE {<<>>}) :
            TransactionRun(thread_id, operation, sql_statements)

Next == Query \/ Schema \/ Transaction

Spec == Init /\ [][Next]_vars


\* the last call was the transaction tool's, with this operation
TransactionCall(operation) ==
    call.tool = "transaction" /\ Upper(call.operation) = operation

\* some execute_query call of the last tool call returned an error
DatabaseFailed == \E i \in DOMAIN executed : executed[i].status = "error"

\* C1: the statements of a BEGIN run within the transaction it opened, so
\* they change nothing durable before a COMMIT: a BEGIN call leaves the
\* committed content of the database as it was.
C1_BeginAwaitsCommit ==
    [][(call'.tool = "transaction" /\ Upper(call'.operation) = <<"B","E","G","I","N">>) => db' = db]_vars

\* C2: when a statement of a BEGIN batch fails, the tool returns status
\* 'error', the failed statement is the last one executed, and the calling
\* thread's transaction is no longer registered (it was rolled back).
C2_FailedStatementAbortsBatch ==
    (TransactionCall(<<"B","E","G","I","N">>) /\ DatabaseFailed) =>
        /\ result.status = "error"
        /\ \A i \in DOMAIN executed : executed[i].status = "error" => i = Len(executed)
        /\ call.thread \notin DOMAIN transaction_connections

\* C4: for a thread with no registered transaction, commit_transaction
\* raises 'No active transaction found' and rollback_transaction raises
\* nothing, both leaving transaction_connections as it is; a COMMIT through
\* the tool then returns the error envelope ORA-02049 and a ROLLBACK a
\* success envelope, the registry and the database unchanged.
C4_NoActiveTransaction ==
    [][\A t \in Threads \ DOMAIN transaction_connections :
          /\ commit_transaction(transaction_connections, t)
                = [tc |-> transaction_connections, exc |-> <<"No active transaction found">>]
          /\ rollback_transaction(transaction_connections, t)
                = [tc |-> transaction_connections, exc |-> NoException]
          /\ (call'.tool = "transaction" /\ call'.thread = t
                /\ Upper(call'.operation) = <<"C","O","M","M","I","T">>) =>
                /\ result'.status = "error"
                /\ result'.error_code = "ORA-02049"
                /\ result'.error_message[Len(result'.error_message)]
                      = "No active transaction found"
                /\ transaction_connections' = transaction_connections
                /\ db' = db
          /\ (call'.tool = "transaction" /\ call'.thread = t
                /\ Upper(call'.operation) = <<"R","O","L","L","B","A","C","K">>) =>
                /\ result'.status = "success"
                /\ transaction_connections' = transaction_connections
                /\ db' = db]_vars

\* a COMMIT by a thread without transaction was answered ORA-02049 while
\* another thread's transaction stayed registered
C4_Witness ==
    /\ TransactionCall(<<"C","O","M","M","I","T">>)
    /\ result.status = "error"
    /\ result.error_code = "ORA-02049"
    /\ transaction_connections # <<>>
    /\ call.thread \notin DOMAIN transaction_connections

EnvelopeFields == {"data", "columns", "row_count", "execution_time_ms", "timestamp"}

\* C5 as the specification states it: every success result of the three
\* tools carries data, columns, row_count, execution_time_ms and timestamp
\* at the top level, row_count being the number of entries of data.
C5_SharedEnvelope ==
    (call.tool \in {"query", "schema", "transaction"} /\ result.status = "success") =>
        /\ EnvelopeFields \subseteq DOMAIN result
        /\ result.row_count = Len(result.data)

\* C5, amended: a success result has status 'success' and none has
\* row_count; the query tool's carries data, columns, execution_time_ms and
\* rows_affected = the number of entries of data, its timestamp under
\* oracle_metadata; the schema tool's carries columns (one table) or tables
\* with total_tables = their number (overview) and none of data,
\* execution_time_ms, timestamp; the transaction tool's carries timestamp
\* and none of data, columns, execution_time_ms.
C5_EnvelopePerTool ==
    result.status = "success" =>
        /\ "row_count" \notin DOMAIN result
        /\ call.tool = "query" =>
              /\ {"data", "columns", "execution_time_ms", "rows_affected", "oracle_metadata"}
                    \subseteq DOMAIN result
              /\ "timestamp" \notin DOMAIN result
              /\ "timestamp" \in DOMAIN result.oracle_metadata
              /\ result.rows_affected = Len(result.data)
        /\ call.tool = "schema" =>
              /\ DOMAIN result \cap {"data", "execution_time_ms", "timestamp"} = {}
              /\ IF call.input # <<>>
                 THEN "columns" \in DOMAIN result
                 ELSE /\ "columns" \notin DOMAIN result
                      /\ result.total_tables = Len(result.tables)
        /\ call.tool = "transaction" =>
              /\ "timestamp" \in DOMAIN result
              /\ DOMAIN result \cap {"data", "columns", "execution_time_ms"} = {}

\* an INSERT through the query tool succeeded: one row was written, and
\* the envelope has no entry of data
C5_Witness ==
    /\ call.tool = "query"
    /\ StartsWith(call.input, <<"I","N","S","E","R","T">>)
    /\ result.status = "success"
    /\ result.data = <<>>

\* C6: whenever the database reported an error to the tool, the tool
\* returned status 'error' with error_code, error_message and timestamp.
C6_FailureReturnsError ==
    (call.tool \in {"query", "schema", "transaction"} /\ DatabaseFailed) =>
        /\ result.status = "error"
        /\ {"error_code", "error_message", "timestamp"} \subseteq DOMAIN result


(***************************************************************************)
(* SpecValidate: one call of the query tool on a text built from tokens.   *)
(***************************************************************************)

\* the most tokens of a text
MaxTokens == 3

\* pieces of statements: keywords the validation looks for, in either case,
\* a fragment that becomes a keyword once the date function is rewritten,
\* a seeded column and a seeded table
Tokens ==
    { <<"S","E","L","E","C","T"," ">>, <<"G","R","A","N">>, <<"s","t","r","f","t","i","m","e","(","'","%","Y","-","%","m","-","%","d","'",",","'","n","o","w","'",")">>, <<"d","r","o","p"," ">>, <<" ">>,
      <<"c","r","e","a","t","e","d","_","d","a","t","e">>, <<" ","F","R","O","M"," ","e","m","p","l","o","y","e","e","s">> }

TokenTexts == { Join(ts) : ts \in UNION { [1..n -> Tokens] : n \in 1..MaxTokens } }

InitValidate ==
    /\ db = SeedDB
    /\ transaction_connections = <<>>
    /\ call = NoCall
    /\ result = [status |-> "none"]
    /\ executed = <<>>
    /\ pool_lock = Free
    /\ pc = [t \in Threads |-> Idle]
    /\ conn = [t \in Threads |-> NoConnection]
    /\ opened = {}
    /\ latest = [t \in Threads |-> NoConnection]
    /\ requests = <<>>
    /\ user_query \in TokenTexts \cup StatementTexts
    /\ AppStart

\* the caller hands its sql_query to the query tool
Submit == call = NoCall /\ QueryRun(user_query)

NextValidate == Submit

SpecValidate == InitValidate /\ [][NextValidate]_vars

\* a text names one of the keywords the validation refuses
NamesDangerous(text) == \E keyword \in dangerous_keywords : Contains(Upper(text), keyword)

\* a text opens, after white space and in either case, with a supported verb
OpensValid(text) ==
    \E keyword \in valid_start_keywords : StartsWith(Strip(Upper(text)), keyword)

\* C7 as the specification states it: no statement handed to execute_query
\* contains DROP, TRUNCATE, ALTER, CREATE, GRANT or REVOKE, and each starts
\* with SELECT, INSERT, UPDATE, DELETE or WITH.
C7_ExecutedStatementsClean ==
    call.tool = "query" =>
        \A i \in DOMAIN executed :
            ~ NamesDangerous(executed[i].query) /\ OpensValid(executed[i].query)

\* C7, amended: the check is made on the caller's sql_query, not on the
\* statement handed to execute_query.  A sql_query that names one of the six
\* keywords or does not open with one of the five verbs is answered with
\* the error envelope ORA-00001, nothing is executed and the database is
\* as before; any other sql_query is executed once, as format_oracle_query
\* rewrites it.
C7_CallerQueryChecked ==
    call.tool = "query" =>
        IF NamesDangerous(call.input) \/ ~ OpensValid(call.input)
        THEN /\ result.status = "error"
             /\ result.error_code = "ORA-00001"
             /\ executed = <<>>
             /\ db = SeedDB
        ELSE /\ Len(executed) = 1
             /\ executed[1].query = format_oracle_query(call.input)

\* a statement naming DROP in lower case was refused
C7_Witness ==
    /\ call.tool = "query"
    /\ Contains(call.input, <<"d","r","o","p">>)
    /\ OpensValid(call.input)
    /\ result.error_code = "ORA-00001"
    /\ executed = <<>>

\* C8: every SELECT, INSERT, UPDATE and DELETE over the seeded tables is
\* accepted by the validation and executed.
C8_SeededStatementsRun ==
    (call.tool = "query" /\ call.input \in StatementTexts) =>
        /\ validate_sql_query(call.input)
        /\ Len(executed) = 1


(***************************************************************************)
(* SpecTxnMgr: the threads call begin_transaction, commit_transaction and  *)
(* rollback_transaction of one DatabaseManager; a step is one statement of *)
(* the method, and entering or leaving "with self.pool_lock" is a step.    *)
(***************************************************************************)

\* the most connections sqlite3.connect opens in a run
MaxConnections == 3

At(t, op, at) == pc[t] = [op |-> op, at |-> at]

Goto(t, op, at) == pc' = [pc EXCEPT ![t] = [op |-> op, at |-> at]]

\* what the manager's steps leave alone
ToolsUnchanged == UNCHANGED <<db, call, result, executed, requests, app_vars>>

\* a thread calls one of the three methods; thread_id = threading.get_ident()
MethodCall(t, op) ==
    /\ pc[t] = Idle
    /\ op = "begin" => Cardinality(opened) < MaxConnections
    /\ Goto(t, op, IF op = "begin" THEN "connect" ELSE "lock")
    /\ conn' = [conn EXCEPT ![t] = NoConnection]
    /\ UNCHANGED <<transaction_connections, pool_lock, opened, latest>>
    /\ ToolsUnchanged

\* conn = sqlite3.connect(...); conn.execute("BEGIN TRANSACTION")
Connect(t) ==
    /\ At(t, "begin", "connect")
    /\ conn' = [conn EXCEPT ![t] = NewConnection(opened)]
    /\ opened' = opened \cup {NewConnection(opened)}
    /\ latest' = [latest EXCEPT ![t] = NewConnection(opened)]
    /\ Goto(t, "begin", "lock")
    /\ UNCHANGED <<transaction_connections, pool_lock>>
    /\ ToolsUnchanged

\* sqlite3.connect raises: begin_transaction logs and raises
ConnectFails(t) ==
    /\ At(t, "begin", "connect")
    /\ pc' = [pc EXCEPT ![t] = Idle]
    /\ UNCHANGED <<transaction_connections, pool_lock, conn, opened, latest>>
    /\ ToolsUnchanged

\* the statement a thread runs once it holds the lock
Locked(op, at) ==
    IF op = "begin" THEN "store" ELSE IF at = "lock" THEN "get" ELSE "del"

\* a lock taken whoever holds it
Seize(t) ==
    /\ pc[t].at \in {"lock", "lock_again"}
    /\ pool_lock' = t
    /\ Goto(t, pc[t].op, Locked(pc[t].op, pc[t].at))
    /\ UNCHANGED <<transaction_connections, conn, opened, latest>>
    /\ ToolsUnchanged

\* with self.pool_lock: the thread waits until the lock is free and takes it
Acquire(t) ==
    /\ pc[t].at \in {"lock", "lock_again"}
    /\ pool_lock = Free
    /\ pool_lock' = t
    /\ Goto(t, pc[t].op, Locked(pc[t].op, pc[t].at))
    /\ UNCHANGED <<transaction_connections, conn, opened, latest>>
    /\ ToolsUnchanged

\* self.transaction_connections[thread_id] = conn
Store(t) ==
    /\ At(t, "begin", "store")
    /\ transaction_connections' =
          [u \in DOMAIN transaction_connections \cup {t} |->
              IF u = t THEN conn[t] ELSE transaction_connections[u]]
    /\ Goto(t, "begin", "unlock_last")
    /\ UNCHANGED <<pool_lock, conn, opened, latest>>
    /\ ToolsUnchanged

\* conn = self.transaction_connections.get(thread_id)
DictGet(t) ==
    /\ pc[t].op \in {"commit", "rollback"}
    /\ pc[t].at = "get"
    /\ conn' = [conn EXCEPT ![t] = Get(transaction_connections, t, NoConnection)]
    /\ Goto(t, pc[t].op, "unlock")
    /\ UNCHANGED <<transaction_connections, pool_lock, opened, latest>>
    /\ ToolsUnchanged

\* del self.transaction_connections[thread_id]
DictDel(t) ==
    /\ pc[t].op \in {"commit", "rollback"}
    /\ pc[t].at = "del"
    /\ transaction_connections' =
          [u \in DOMAIN transaction_connections \ {t} |-> transaction_connections[u]]
    /\ Goto(t, pc[t].op, "unlock_last")
    /\ UNCHANGED <<pool_lock, conn, opened, latest>>
    /\ ToolsUnchanged

\* the with block ends: the lock is released; after the last block of a
\* method the method returns
Release(t) ==
    /\ pc[t].at \in {"unlock", "unlock_last"}
    /\ pool_lock' = Free
    /\ pc' = [pc EXCEPT ![t] = IF pc[t].at = "unlock_last" THEN Idle
                                ELSE [op |-> pc[t].op, at |-> "check"]]
    /\ UNCHANGED <<transaction_connections, conn, opened, latest>>
    /\ ToolsUnchanged

\* if conn: conn.commit() or conn.rollback(), then conn.close(); else the
\* commit raises 'No active transaction found' and the rollback logs a
\* warning: either way the method is left
CommitOrRollback(t) ==
    /\ pc[t].op \in {"commit", "rollback"}
    /\ pc[t].at = "check"
    /\ pc' = [pc EXCEPT ![t] = IF conn[t] # NoConnection
                                THEN [op |-> pc[t].op, at |-> "lock_again"]
                                ELSE Idle]
    /\ UNCHANGED <<transaction_connections, pool_lock, conn, opened, latest>>
    /\ ToolsUnchanged

Methods == {"begin", "commit", "rollback"}

NextTxnMgr ==
    \E t \in Threads :
        \/ \E op \in Methods : MethodCall(t, op)
        \/ Connect(t)
        \/ ConnectFails(t)
        \/ Acquire(t)
        \/ Store(t)
        \/ DictGet(t)
        \/ DictDel(t)
        \/ Release(t)
        \/ CommitOrRollback(t)

SpecTxnMgr == Init /\ [][NextTxnMgr]_vars

\* the thread is between the connect and the store of a begin_transaction
Beginning(t) == pc[t].op = "begin" /\ pc[t].at \in {"lock", "store"}

\* C3: under any interleaving of the three methods, every access to the
\* dictionary (store, get, del) is made by the thread that holds pool_lock;
\* a registered thread's connection is the one its latest begin_transaction
\* opened, once that begin has stored it, and no two threads share one; a
\* del finds the entry it deletes; an
\* entry is replaced only by its own thread's store and removed only by its
\* own thread's del, which leaves the other entries alone.
C3_OwnEntryUnderLock ==
    /\ [](\A t \in Threads :
            /\ pc[t].at \in {"store", "get", "del"} => pool_lock = t
            /\ pc[t].at = "del" => t \in DOMAIN transaction_connections
            /\ (t \in DOMAIN transaction_connections /\ ~ Beginning(t)) =>
                  transaction_connections[t] = latest[t]
            /\ \A u \in DOMAIN transaction_connections \ {t} :
                  t \in DOMAIN transaction_connections =>
                      transaction_connections[u] # transaction_connections[t])
    /\ [][\A t \in DOMAIN transaction_connections :
             /\ t \notin DOMAIN transaction_connections' =>
                   /\ pc[t].at = "del"
                   /\ pool_lock = t
                   /\ \A u \in DOMAIN transaction_connections \ {t} :
                         /\ u \in DOMAIN transaction_connections'
                         /\ transaction_connections'[u] = transaction_connections[u]
             /\ (t \in DOMAIN transaction_connections'
                   /\ transaction_connections'[t] # transaction_connections[t]) =>
                   /\ pc[t].at = "store"
                   /\ pool_lock = t]_vars

\* a thread holds the lock to delete its entry while the other thread, its
\* own transaction registered, waits for the lock, and every connection
\* the run may open has been opened
C3_Witness ==
    \E t \in Threads, u \in Threads :
        /\ t # u
        /\ pc[t].at = "del" /\ pool_lock = t
        /\ pc[u].at \in {"lock", "lock_again"}
        /\ u \in DOMAIN transaction_connections
        /\ Cardinality(opened) = MaxConnections


(***************************************************************************)
(* SpecHttp: calls of the HTTP tools, the network answering as it likes.   *)
(***************************************************************************)

\* url inputs: a public endpoint; the hosts _validate_url blocks, plain, in
\* upper case, with a port, in brackets; another scheme, no scheme, no
\* netloc, a netloc without host
Urls ==
    { <<"h","t","t","p","s",":","/","/","a","p","i",".","e","x","a","m","p","l","e",".","c","o","m","/","v","1","?","q","=","1">>, <<"h","t","t","p",":","/","/","l","o","c","a","l","h","o","s","t","/","a","d","m","i","n">>,
      <<"H","T","T","P",":","/","/","L","O","C","A","L","H","O","S","T",":","8","0","8","0","/">>, <<"h","t","t","p",":","/","/","1","2","7",".","0",".","0",".","1",":","8","0","8","0","/">>, <<"h","t","t","p",":","/","/","0",".","0",".","0",".","0","/">>,
      <<"h","t","t","p",":","/","/","[",":",":","1","]","/">>, <<"f","t","p",":","/","/","e","x","a","m","p","l","e",".","c","o","m","/","f","i","l","e">>, <<"e","x","a","m","p","l","e",".","c","o","m","/","p","a","t","h">>,
      <<"h","t","t","p",":","/","/","/","p","a","t","h">>, <<"h","t","t","p",":","/","/",":","8","0","/">>, <<"h","t","t","p","s",":","/","/","u","s","e","r","@","a","p","i",".","e","x","a","m","p","l","e",".","c","o","m">> }

HttpMethods == { <<"G","E","T">>, <<"p","o","s","t">> }

HttpTools == {"api_run", "api_arun", "http_request", "make_api_call"}

HttpCall(tool, url, method) ==
    [tool |-> tool, thread |-> "none", operation |-> method, input |-> url]

\* the call of an HTTP tool returns: its envelope, the requests it sent
Answered(answer) ==
    /\ result' = answer.ret
    /\ requests' = answer.sent
    /\ UNCHANGED <<db, transaction_connections, executed, manager_vars, app_vars>>

ApiRun(url, method, outcome) ==
    /\ call' = HttpCall("api_run", url, method)
    /\ Answered(APICallTool_run(url, method, outcome))

ApiArun(url, method, outcome) ==
    /\ call' = HttpCall("api_arun", url, method)
    /\ Answered(APICallTool_arun(url, method, outcome))

HttpRequestRun(url, method, outcome) ==
    /\ call' = HttpCall("http_request", url, method)
    /\ Answered(HTTPRequestTool_run(url, method, outcome))

MakeApiCall(url, method, outcome) ==
    /\ call' = HttpCall("make_api_call", url, method)
    /\ Answered(make_api_call(url, method, outcome))

NextHttp ==
    \E url \in Urls, method \in HttpMethods, outcome \in NetworkOutcomes :
        \/ ApiRun(url, method, outcome)
        \/ ApiArun(url, method, outcome)
        \/ HttpRequestRun(url, method, outcome)
        \/ MakeApiCall(url, method, outcome)

SpecHttp == Init /\ [][NextHttp]_vars

\* a URL C9 forbids: its scheme is not http or https, or its host is empty
\* or one of localhost, 127.0.0.1, 0.0.0.0, ::1
Forbidden(url) ==
    \/ urlparse(url).scheme \notin { <<"h","t","t","p">>, <<"h","t","t","p","s">> }
    \/ hostname(urlparse(url)) = <<>>
    \/ hostname(urlparse(url)) \in blocked_hosts

\* C9: a call of APICallTool._run or _arun with a forbidden URL sends no
\* request and returns an error envelope.
C9_NoRequestToForbiddenUrl ==
    (call.tool \in {"api_run", "api_arun"} /\ Forbidden(call.input)) =>
        /\ requests = <<>>
        /\ result.status = "error"

HttpFields == {"status_code", "headers", "response_time_ms", "url", "method"}

\* C10 as the specification states it: every envelope of the HTTP tools has
\* status, status_code, headers, response_time_ms, url and method at its
\* top level.
C10_HttpEnvelope ==
    call.tool \in HttpTools => ({"status"} \cup HttpFields) \subseteq DOMAIN result

\* C10, amended: every envelope has status.  An envelope built from a
\* response has all five fields at its top level when APICallTool._run or
\* make_api_call returns it, all but response_time_ms when _arun returns
\* it, and none of them when HTTPRequestTool._run returns it, which puts
\* url and method under request, status_code and headers under response and
\* response_time_ms under performance.  An envelope built without a
\* response (the URL is refused, the client raises) has url and method at
\* its top level and none of status_code, headers, response_time_ms.
C10_EnvelopePerTool ==
    call.tool \in HttpTools =>
        /\ "status" \in DOMAIN result
        /\ IF "error_type" \in DOMAIN result /\ result.error_type # "http_error"
           THEN DOMAIN result \cap HttpFields = {"url", "method"}
           ELSE CASE call.tool \in {"api_run", "make_api_call"} ->
                       HttpFields \subseteq DOMAIN result
                  [] call.tool = "api_arun" ->
                       DOMAIN result \cap HttpFields = HttpFields \ {"response_time_ms"}
                  [] call.tool = "http_request" ->
                       /\ DOMAIN result \cap HttpFields = {}
                       /\ {"url", "method"} \subseteq DOMAIN result.request
                       /\ {"status_code", "headers"} \subseteq DOMAIN result.response
                       /\ "response_time_ms" \in DOMAIN result.performance

\* _arun returned the envelope of a response
C10_Witness ==
    /\ call.tool = "api_arun"
    /\ result.status = "success"
    /\ "status_code" \in DOMAIN result
    /\ requests # <<>>


(***************************************************************************)
(* SpecPass: what APICallTool._run and HTTPRequestTool._run hand to        *)
(* session.request for the arguments of their caller.                      *)
(***************************************************************************)

\* a dict of the caller is a function of its keys; None and {} are both
\* false in the tools' tests and are the empty dict here
EmptyDict == [k \in {} |-> <<>>]

\* dict.update
Update(dict, other) ==
    [k \in DOMAIN dict \cup DOMAIN other |->
        IF k \in DOMAIN other THEN other[k] ELSE dict[k]]

\* request_kwargs[key] = value when the test of the code holds
WithIf(test, dict, key, value) == IF test THEN With(dict, key, value) ELSE dict

body_methods == { <<"P","O","S","T">>, <<"P","U","T">>, <<"P","A","T","C","H">> }

\* APICallTool._run: request_kwargs
api_request_kwargs(url, method, headers, data, params) ==
    WithIf(data # EmptyDict /\ Upper(method) \in body_methods,
        WithIf(params # EmptyDict,
            WithIf(headers # EmptyDict,
                [method |-> Upper(method), url |-> url, timeout |-> "timeout"],
                "headers", headers),
            "params", params),
        "json", data)

\* HTTPRequestTool._handle_authentication
handle_authentication(auth) ==
    CASE Lower(Get(auth, "type", <<>>)) = <<"b","e","a","r","e","r">> ->
           [headers |-> [Authorization |-> <<"Bearer", Get(auth, "token", "None")>>]]
      [] Lower(Get(auth, "type", <<>>)) = <<"a","p","i","_","k","e","y">> ->
           IF Lower(Get(auth, "location", <<"h","e","a","d","e","r">>)) = <<"h","e","a","d","e","r">>
           THEN [headers |-> [k \in {Get(auth, "key_name", "X-API-Key")} |->
                                 Get(auth, "key_value", "None")]]
           ELSE IF Lower(Get(auth, "location", <<"h","e","a","d","e","r">>)) = <<"q","u","e","r","y">>
           THEN [params |-> [k \in {Get(auth, "key_name", "X-API-Key")} |->
                                Get(auth, "key_value", "None")]]
           ELSE EmptyDict
      [] Lower(Get(auth, "type", <<>>)) = <<"b","a","s","i","c">> ->
           [auth |-> <<Get(auth, "username", "None"), Get(auth, "password", "None")>>]
      [] OTHER -> EmptyDict

\* request_kwargs['headers'][name] = value, the dict made if it is missing
WithHeader(kwargs, name, value) ==
    With(kwargs, "headers", With(Get(kwargs, "headers", EmptyDict), name, value))

\* HTTPRequestTool._run: the headers of the caller put over those of the
\* authentication
http_headers(kwargs, headers) ==
    IF headers # EmptyDict
    THEN With(kwargs, "headers", Update(Get(kwargs, "headers", EmptyDict), headers))
    ELSE kwargs

\* HTTPRequestTool._run: json_data, or else form_data, and its Content-Type
http_data(kwargs, json_data, form_data) ==
    IF json_data # EmptyDict
    THEN WithHeader(With(kwargs, "json", json_data), "Content-Type", "application/json")
    ELSE IF form_data # EmptyDict
    THEN WithHeader(With(kwargs, "data", form_data),
                    "Content-Type", "application/x-www-form-urlencoded")
    ELSE kwargs

\* HTTPRequestTool._run: request_kwargs
http_request_kwargs(url, method, headers, json_data, form_data, auth) ==
    http_data(
        http_headers(
            Update([method |-> Upper(method), url |-> url, timeout |-> "timeout"],
                   IF auth # EmptyDict THEN handle_authentication(auth) ELSE EmptyDict),
            headers),
        json_data, form_data)

\* APICallTool.__init__: session.headers
api_session_headers ==
    [k \in {"User-Agent", "Accept", "Content-Type"} |->
        CASE k = "User-Agent" -> "LangChain-MCP-Agent/1.0"
          [] k = "Accept" -> "application/json"
          [] k = "Content-Type" -> "application/json"]

\* session.request(**request_kwargs): the request the session prepares, the
\* headers of the call put over those of the session
session_request(session_headers, kwargs) ==
    With(kwargs, "headers", Update(session_headers, Get(kwargs, "headers", EmptyDict)))

\* the requests a call puts on the wire: none where the tool sends none
Prepared(sent, session_headers, kwargs) ==
    IF sent = <<>> THEN <<>> ELSE <<session_request(session_headers, kwargs)>>

Dict1(key, value) == [k \in {key} |-> value]

PassUrls == { <<"h","t","t","p","s",":","/","/","a","p","i",".","e","x","a","m","p","l","e",".","c","o","m","/","v","1">>, <<"h","t","t","p",":","/","/","l","o","c","a","l","h","o","s","t","/","a","d","m","i","n">> }

PassMethods == { <<"G","E","T">>, <<"p","o","s","t">>, <<"D","E","L","E","T","E">> }

HeaderInputs == { EmptyDict, Dict1("X-Trace", "1"), Dict1("Content-Type", "text/plain") }

DataInputs == { EmptyDict, Dict1("id", "1") }

ParamInputs == { EmptyDict, Dict1("q", "x") }

FormInputs == { EmptyDict, Dict1("field", "v") }

AuthInputs ==
    { EmptyDict,
      [type |-> <<"B","e","a","r","e","r">>, token |-> "secret"],
      [type |-> <<"a","p","i","_","k","e","y">>, key_value |-> "secret"],
      [type |-> <<"a","p","i","_","k","e","y">>, location |-> <<"Q","u","e","r","y">>, key_name |-> "key", key_value |-> "secret"],
      [type |-> <<"b","a","s","i","c">>, username |-> "user", password |-> "secret"] }

\* the tools keep nothing from one call to the next: one call is looked at
ApiPass(url, method, headers, data, params, outcome) ==
    /\ call = NoCall
    /\ call' = [tool |-> "api_run", thread |-> "none", operation |-> method, input |-> url,
                headers |-> headers, data |-> data, params |-> params]
    /\ result' = APICallTool_run(url, method, outcome).ret
    /\ requests' = Prepared(APICallTool_run(url, method, outcome).sent, api_session_headers,
                            api_request_kwargs(url, method, headers, data, params))
    /\ UNCHANGED <<db, transaction_connections, executed, manager_vars, app_vars>>

HttpPass(url, method, headers, json_data, form_data, auth, outcome) ==
    /\ call = NoCall
    /\ call' = [tool |-> "http_request", thread |-> "none", operation |-> method,
                input |-> url, headers |-> headers, json_data |-> json_data,
                form_data |-> form_data, auth |-> auth]
    /\ result' = HTTPRequestTool_run(url, method, outcome).ret
    /\ requests' = Prepared(HTTPRequestTool_run(url, method, outcome).sent, EmptyDict,
                            http_request_kwargs(url, method, headers, json_data,
                                                form_data, auth))
    /\ UNCHANGED <<db, transaction_connections, executed, manager_vars, app_vars>>

NextPass ==
    \E url \in PassUrls, method \in PassMethods, headers \in HeaderInputs,
       outcome \in NetworkOutcomes :
        \/ \E data \in DataInputs, params \in ParamInputs :
               ApiPass(url, method, headers, data, params, outcome)
        \/ \E json_data \in DataInputs, form_data \in FormInputs, auth \in AuthInputs :
               HttpPass(url, method, headers, json_data, form_data, auth, outcome)

SpecPass == Init /\ [][NextPass]_vars

\* the headers of the caller are among those of the request, with their values
HeadersCarried(headers, request) ==
    \A k \in DOMAIN headers :
        k \in DOMAIN request.headers /\ request.headers[k] = headers[k]

\* C11: the request APICallTool._run or HTTPRequestTool._run issues carries
\* the caller's method and URL, each header of the caller with the caller's
\* value, the caller's URL parameters and the caller's body, for every
\* method; nothing the caller supplied is dropped.
C11_PassThrough ==
    (call.tool \in {"api_run", "http_request"} /\ requests # <<>>) =>
        /\ requests[1].method = Upper(call.operation)
        /\ requests[1].url = call.input
        /\ HeadersCarried(call.headers, requests[1])
        /\ call.tool = "api_run" =>
               /\ Get(requests[1], "params", EmptyDict) = call.params
               /\ Get(requests[1], "json", EmptyDict) = call.data
        /\ call.tool = "http_request" =>
               /\ Get(requests[1], "json", EmptyDict) = call.json_data
               /\ Get(requests[1], "data", EmptyDict) = call.form_data

(***************************************************************************)
(* The servers: MCP (working_mcp_server), SimpleMCPServer and the          *)
(* LangChain MCPServer.  A text the servers only build and hand on is the  *)
(* sequence of its non-empty pieces: "" is <<>> and + is \o.               *)
(***************************************************************************)

\* any(keyword in text for keyword in keywords)
AnyIn(text, keywords) == \E keyword \in keywords : Contains(text, keyword)

db_keywords ==
    { <<"s","e","l","e","c","t">>, <<"t","a","b","l","e">>, <<"d","a","t","a","b","a","s","e">>, <<"s","c","h","e","m","a">>, <<"s","q","l">>, <<"q","u","e","r","y">>, <<"d","a","t","a">>,
      <<"e","m","p","l","o","y","e","e">>, <<"d","e","p","a","r","t","m","e","n","t">>, <<"o","r","d","e","r">>, <<"c","u","s","t","o","m","e","r">>, <<"c","o","l","u","m","n">>, <<"r","o","w">>,
      <<"i","n","s","e","r","t">>, <<"u","p","d","a","t","e">>, <<"d","e","l","e","t","e">>, <<"j","o","i","n">>, <<"w","h","e","r","e">>, <<"g","r","o","u","p"," ","b","y">>,
      <<"e","m","p","l","o","y","e","e","s">>, <<"d","e","p","a","r","t","m","e","n","t","s">>, <<"o","r","d","e","r","s">>, <<"c","u","s","t","o","m","e","r","s">>, <<"r","e","c","o","r","d","s">>,
      <<"s","h","o","w"," ","m","e">>, <<"g","e","t"," ","a","l","l">>, <<"f","i","n","d">>, <<"l","i","s","t">>, <<"r","e","t","r","i","e","v","e">>, <<"f","e","t","c","h">>,
      <<"s","t","r","u","c","t","u","r","e">>, <<"t","a","b","l","e","s">>, <<"m","e","t","a","d","a","t","a">>, <<"i","n","f","o","r","m","a","t","i","o","n">> }

api_keywords ==
    { <<"a","p","i">>, <<"h","t","t","p">>, <<"r","e","q","u","e","s","t">>, <<"e","n","d","p","o","i","n","t">>, <<"c","a","l","l">>, <<"e","x","t","e","r","n","a","l">>,
      <<"s","e","r","v","i","c","e">>, <<"r","e","s","t">>, <<"j","s","o","n">>, <<"r","e","s","p","o","n","s","e">>, <<"w","e","b"," ","s","e","r","v","i","c","e">>,
      <<"i","n","t","e","g","r","a","t","i","o","n">>, <<"t","h","i","r","d"," ","p","a","r","t","y">>, <<"r","e","m","o","t","e">>, <<"f","e","t","c","h"," ","d","a","t","a">>,
      <<"j","s","o","n","p","l","a","c","e","h","o","l","d","e","r">>, <<"t","y","p","i","c","o","d","e">>, <<"p","o","s","t","s">>, <<"u","s","e","r","s">> }

ai_keywords ==
    { <<"e","x","p","l","a","i","n">>, <<"h","o","w">>, <<"w","h","a","t">>, <<"w","h","y">>, <<"h","e","l","p">>, <<"d","e","s","c","r","i","b","e">>, <<"t","e","l","l"," ","m","e">>,
      <<"a","n","a","l","y","z","e">>, <<"s","u","g","g","e","s","t">>, <<"r","e","c","o","m","m","e","n","d">>, <<"o","p","t","i","m","i","z","e">>, <<"i","m","p","r","o","v","e">>,
      <<"u","n","d","e","r","s","t","a","n","d">>, <<"c","l","a","r","i","f","y">>, <<"b","r","e","a","k","d","o","w","n">>, <<"s","u","m","m","a","r","y">>, <<"o","v","e","r","v","i","e","w">>,
      <<"b","e","s","t"," ","p","r","a","c","t","i","c","e">>, <<"a","d","v","i","c","e">>, <<"g","u","i","d","a","n","c","e">>, <<"m","e","a","n","i","n","g">>, <<"p","u","r","p","o","s","e">> }

system_keywords ==
    { <<"s","t","a","t","u","s">>, <<"h","e","a","l","t","h">>, <<"c","h","e","c","k">>, <<"c","o","n","n","e","c","t","i","o","n">>, <<"a","v","a","i","l","a","b","l","e">>, <<"t","o","o","l","s">>,
      <<"s","y","s","t","e","m">>, <<"s","e","r","v","e","r">>, <<"r","u","n","n","i","n","g">>, <<"w","o","r","k","i","n","g">>, <<"t","e","s","t">>, <<"v","e","r","i","f","y">> }

\* MCP._analyze_query: query_intent
query_intent(query_lower) ==
    IF AnyIn(query_lower, { <<"s","c","h","e","m","a">>, <<"s","t","r","u","c","t","u","r","e">>, <<"t","a","b","l","e","s">> })
    THEN "schema_exploration"
    ELSE IF AnyIn(query_lower, { <<"e","m","p","l","o","y","e","e">>, <<"d","e","p","a","r","t","m","e","n","t">>, <<"o","r","d","e","r">>, <<"c","u","s","t","o","m","e","r">> })
    THEN "data_retrieval"
    ELSE IF AnyIn(query_lower, api_keywords) THEN "api_call"
    ELSE IF AnyIn(query_lower, system_keywords) THEN "system_status"
    ELSE IF AnyIn(query_lower, ai_keywords) /\ ~ AnyIn(query_lower, db_keywords)
    THEN "ai_assistance"
    ELSE "general"

\* MCP._analyze_query, the fields the handlers read
analyze_query(query) ==
    [is_database_query |-> AnyIn(Lower(query), db_keywords),
     is_api_request |-> AnyIn(Lower(query), api_keywords),
     requires_ai |-> AnyIn(Lower(query), ai_keywords),
     is_system_query |-> AnyIn(Lower(query), system_keywords),
     query_intent |-> query_intent(Lower(query))]

TablesByName == <<"S","E","L","E","C","T"," ","n","a","m","e"," ","a","s"," ","t","a","b","l","e","_","n","a","m","e"," ","F","R","O","M"," ","s","q","l","i","t","e","_","m","a","s","t","e","r"," ","W","H","E","R","E"," ","t","y","p","e","=","'","t","a","b","l","e","'"," ","O","R","D","E","R"," ","B","Y"," ","n","a","m","e">>

\* MCP._generate_sql_from_query
generate_sql_from_query(query_lower) ==
    IF AnyIn(query_lower, { <<"e","m","p","l","o","y","e","e">>, <<"e","m","p","l","o","y","e","e","s">>, <<"s","t","a","f","f">>, <<"w","o","r","k","e","r">> })
    THEN IF Contains(query_lower, <<"d","e","p","a","r","t","m","e","n","t">>)
         THEN <<"S","E","L","E","C","T"," ","e",".","*",","," ","d",".","d","e","p","a","r","t","m","e","n","t","_","n","a","m","e"," ","F","R","O","M"," ","e","m","p","l","o","y","e","e","s"," ","e"," ","L","E","F","T"," ","J","O","I","N"," ","d","e","p","a","r","t","m","e","n","t","s"," ","d"," ","O","N"," ","e",".","d","e","p","a","r","t","m","e","n","t","_","i","d"," ","="," ","d",".","d","e","p","a","r","t","m","e","n","t","_","i","d"," ","F","E","T","C","H"," ","F","I","R","S","T"," ","2","0"," ","R","O","W","S"," ","O","N","L","Y">>
         ELSE IF AnyIn(query_lower, { <<"s","a","l","a","r","y">>, <<"p","a","y">> })
         THEN <<"S","E","L","E","C","T"," ","e","m","p","l","o","y","e","e","_","i","d",","," ","f","i","r","s","t","_","n","a","m","e",","," ","l","a","s","t","_","n","a","m","e",","," ","s","a","l","a","r","y",","," ","h","i","r","e","_","d","a","t","e"," ","F","R","O","M"," ","e","m","p","l","o","y","e","e","s"," ","O","R","D","E","R"," ","B","Y"," ","s","a","l","a","r","y"," ","D","E","S","C"," ","F","E","T","C","H"," ","F","I","R","S","T"," ","1","5"," ","R","O","W","S"," ","O","N","L","Y">>
         ELSE IF AnyIn(query_lower, { <<"r","e","c","e","n","t">>, <<"n","e","w">> })
         THEN <<"S","E","L","E","C","T"," ","*"," ","F","R","O","M"," ","e","m","p","l","o","y","e","e","s"," ","W","H","E","R","E"," ","h","i","r","e","_","d","a","t","e"," ",">","="," ","D","A","T","E","(","'","n","o","w","'",","," ","'","-","1"," ","y","e","a","r","'",")"," ","O","R","D","E","R"," ","B","Y"," ","h","i","r","e","_","d","a","t","e"," ","D","E","S","C"," ","F","E","T","C","H"," ","F","I","R","S","T"," ","1","0"," ","R","O","W","S"," ","O","N","L","Y">>
         ELSE <<"S","E","L","E","C","T"," ","e","m","p","l","o","y","e","e","_","i","d",","," ","f","i","r","s","t","_","n","a","m","e",","," ","l","a","s","t","_","n","a","m","e",","," ","e","m","a","i","l",","," ","d","e","p","a","r","t","m","e","n","t","_","i","d",","," ","h","i","r","e","_","d","a","t","e"," ","F","R","O","M"," ","e","m","p","l","o","y","e","e","s"," ","F","E","T","C","H"," ","F","I","R","S","T"," ","1","5"," ","R","O","W","S"," ","O","N","L","Y">>
    ELSE IF AnyIn(query_lower, { <<"d","e","p","a","r","t","m","e","n","t">>, <<"d","e","p","a","r","t","m","e","n","t","s">>, <<"d","e","p","t">> })
    THEN IF Contains(query_lower, <<"b","u","d","g","e","t">>)
         THEN <<"S","E","L","E","C","T"," ","d","e","p","a","r","t","m","e","n","t","_","n","a","m","e",","," ","b","u","d","g","e","t",","," ","m","a","n","a","g","e","r","_","i","d"," ","F","R","O","M"," ","d","e","p","a","r","t","m","e","n","t","s"," ","O","R","D","E","R"," ","B","Y"," ","b","u","d","g","e","t"," ","D","E","S","C">>
         ELSE IF Contains(query_lower, <<"e","m","p","l","o","y","e","e">>)
         THEN <<"S","E","L","E","C","T"," ","d",".","d","e","p","a","r","t","m","e","n","t","_","n","a","m","e",","," ","C","O","U","N","T","(","e",".","e","m","p","l","o","y","e","e","_","i","d",")"," ","a","s"," ","e","m","p","l","o","y","e","e","_","c","o","u","n","t"," ","F","R","O","M"," ","d","e","p","a","r","t","m","e","n","t","s"," ","d"," ","L","E","F","T"," ","J","O","I","N"," ","e","m","p","l","o","y","e","e","s"," ","e"," ","O","N"," ","d",".","d","e","p","a","r","t","m","e","n","t","_","i","d"," ","="," ","e",".","d","e","p","a","r","t","m","e","n","t","_","i","d"," ","G","R","O","U","P"," ","B","Y"," ","d",".","d","e","p","a","r","t","m","e","n","t","_","i","d",","," ","d",".","d","e","p","a","r","t","m","e","n","t","_","n","a","m","e">>
         ELSE <<"S","E","L","E","C","T"," ","d","e","p","a","r","t","m","e","n","t","_","i","d",","," ","d","e","p","a","r","t","m","e","n","t","_","n","a","m","e",","," ","m","a","n","a","g","e","r","_","i","d",","," ","b","u","d","g","e","t"," ","F","R","O","M"," ","d","e","p","a","r","t","m","e","n","t","s">>
    ELSE IF AnyIn(query_lower, { <<"o","r","d","e","r">>, <<"o","r","d","e","r","s">>, <<"s","a","l","e">>, <<"s","a","l","e","s">> })
    THEN IF AnyIn(query_lower, { <<"a","m","o","u","n","t">>, <<"v","a","l","u","e">> })
         THEN <<"S","E","L","E","C","T"," ","o","r","d","e","r","_","i","d",","," ","c","u","s","t","o","m","e","r","_","i","d",","," ","o","r","d","e","r","_","d","a","t","e",","," ","t","o","t","a","l","_","a","m","o","u","n","t"," ","F","R","O","M"," ","o","r","d","e","r","s"," ","O","R","D","E","R"," ","B","Y"," ","t","o","t","a","l","_","a","m","o","u","n","t"," ","D","E","S","C"," ","F","E","T","C","H"," ","F","I","R","S","T"," ","1","5"," ","R","O","W","S"," ","O","N","L","Y">>
         ELSE IF Contains(query_lower, <<"r","e","c","e","n","t">>)
         THEN <<"S","E","L","E","C","T"," ","*"," ","F","R","O","M"," ","o","r","d","e","r","s"," ","W","H","E","R","E"," ","o","r","d","e","r","_","d","a","t","e"," ",">","="," ","D","A","T","E","(","'","n","o","w","'",","," ","'","-","3","0"," ","d","a","y","s","'",")"," ","O","R","D","E","R"," ","B","Y"," ","o","r","d","e","r","_","d","a","t","e"," ","D","E","S","C"," ","F","E","T","C","H"," ","F","I","R","S","T"," ","1","0"," ","R","O","W","S"," ","O","N","L","Y">>
         ELSE <<"S","E","L","E","C","T"," ","o","r","d","e","r","_","i","d",","," ","c","u","s","t","o","m","e","r","_","i","d",","," ","o","r","d","e","r","_","d","a","t","e",","," ","t","o","t","a","l","_","a","m","o","u","n","t",","," ","s","t","a","t","u","s"," ","F","R","O","M"," ","o","r","d","e","r","s"," ","O","R","D","E","R"," ","B","Y"," ","o","r","d","e","r","_","d","a","t","e"," ","D","E","S","C"," ","F","E","T","C","H"," ","F","I","R","S","T"," ","2","0"," ","R","O","W","S"," ","O","N","L","Y">>
    ELSE IF AnyIn(query_lower, { <<"c","u","s","t","o","m","e","r">>, <<"c","u","s","t","o","m","e","r","s">>, <<"c","l","i","e","n","t">> })
    THEN IF Contains(query_lower, <<"o","r","d","e","r">>)
         THEN <<"S","E","L","E","C","T"," ","c",".","c","u","s","t","o","m","e","r","_","i","d",","," ","c",".","c","u","s","t","o","m","e","r","_","n","a","m","e",","," ","C","O","U","N","T","(","o",".","o","r","d","e","r","_","i","d",")"," ","a","s"," ","o","r","d","e","r","_","c","o","u","n","t",","," ","S","U","M","(","o",".","t","o","t","a","l","_","a","m","o","u","n","t",")"," ","a","s"," ","t","o","t","a","l","_","s","p","e","n","t"," ","F","R","O","M"," ","c","u","s","t","o","m","e","r","s"," ","c"," ","L","E","F","T"," ","J","O","I","N"," ","o","r","d","e","r","s"," ","o"," ","O","N"," ","c",".","c","u","s","t","o","m","e","r","_","i","d"," ","="," ","o",".","c","u","s","t","o","m","e","r","_","i","d"," ","G","R","O","U","P"," ","B","Y"," ","c",".","c","u","s","t","o","m","e","r","_","i","d",","," ","c",".","c","u","s","t","o","m","e","r","_","n","a","m","e"," ","F","E","T","C","H"," ","F","I","R","S","T"," ","1","5"," ","R","O","W","S"," ","O","N","L","Y">>
         ELSE <<"S","E","L","E","C","T"," ","c","u","s","t","o","m","e","r","_","i","d",","," ","c","u","s","t","o","m","e","r","_","n","a","m","e",","," ","e","m","a","i","l",","," ","p","h","o","n","e",","," ","a","d","d","r","e","s","s"," ","F","R","O","M"," ","c","u","s","t","o","m","e","r","s"," ","F","E","T","C","H"," ","F","I","R","S","T"," ","1","5"," ","R","O","W","S"," ","O","N","L","Y">>
    ELSE IF AnyIn(query_lower, { <<"t","a","b","l","e">>, <<"t","a","b","l","e","s">>, <<"s","c","h","e","m","a">>, <<"s","t","r","u","c","t","u","r","e">> })
    THEN <<"S","E","L","E","C","T"," ","n","a","m","e"," ","a","s"," ","t","a","b","l","e","_","n","a","m","e",","," ","t","y","p","e"," ","F","R","O","M"," ","s","q","l","i","t","e","_","m","a","s","t","e","r"," ","W","H","E","R","E"," ","t","y","p","e","=","'","t","a","b","l","e","'"," ","O","R","D","E","R"," ","B","Y"," ","n","a","m","e">>
    ELSE IF AnyIn(query_lower, { <<"s","h","o","w">>, <<"l","i","s","t">>, <<"g","e","t">>, <<"f","i","n","d">>, <<"a","l","l">> })
    THEN IF Contains(query_lower, <<"d","a","t","a">>)
         THEN TablesByName
         ELSE <<"S","E","L","E","C","T"," ","n","a","m","e"," ","a","s"," ","t","a","b","l","e","_","n","a","m","e",","," ","s","q","l"," ","F","R","O","M"," ","s","q","l","i","t","e","_","m","a","s","t","e","r"," ","W","H","E","R","E"," ","t","y","p","e","=","'","t","a","b","l","e","'"," ","L","I","M","I","T"," ","5">>
    ELSE IF Contains(query_lower, <<"c","o","u","n","t">>) \/ Contains(query_lower, <<"h","o","w"," ","m","a","n","y">>)
    THEN IF Contains(query_lower, <<"e","m","p","l","o","y","e","e">>)
         THEN <<"S","E","L","E","C","T"," ","C","O","U","N","T","(","*",")"," ","a","s"," ","e","m","p","l","o","y","e","e","_","c","o","u","n","t"," ","F","R","O","M"," ","e","m","p","l","o","y","e","e","s">>
         ELSE IF Contains(query_lower, <<"d","e","p","a","r","t","m","e","n","t">>)
         THEN <<"S","E","L","E","C","T"," ","C","O","U","N","T","(","*",")"," ","a","s"," ","d","e","p","a","r","t","m","e","n","t","_","c","o","u","n","t"," ","F","R","O","M"," ","d","e","p","a","r","t","m","e","n","t","s">>
         ELSE IF Contains(query_lower, <<"o","r","d","e","r">>)
         THEN <<"S","E","L","E","C","T"," ","C","O","U","N","T","(","*",")"," ","a","s"," ","o","r","d","e","r","_","c","o","u","n","t"," ","F","R","O","M"," ","o","r","d","e","r","s">>
         ELSE <<"S","E","L","E","C","T"," ","C","O","U","N","T","(","*",")"," ","a","s"," ","t","a","b","l","e","_","c","o","u","n","t"," ","F","R","O","M"," ","s","q","l","i","t","e","_","m","a","s","t","e","r"," ","W","H","E","R","E"," ","t","y","p","e","=","'","t","a","b","l","e","'">>
    ELSE IF AnyIn(query_lower, { <<"a","v","e","r","a","g","e">>, <<"a","v","g">>, <<"m","e","a","n">>, <<"s","t","a","t","i","s","t","i","c","s">> })
            /\ Contains(query_lower, <<"s","a","l","a","r","y">>)
    THEN <<"S","E","L","E","C","T"," ","A","V","G","(","s","a","l","a","r","y",")"," ","a","s"," ","a","v","e","r","a","g","e","_","s","a","l","a","r","y",","," ","M","I","N","(","s","a","l","a","r","y",")"," ","a","s"," ","m","i","n","_","s","a","l","a","r","y",","," ","M","A","X","(","s","a","l","a","r","y",")"," ","a","s"," ","m","a","x","_","s","a","l","a","r","y"," ","F","R","O","M"," ","e","m","p","l","o","y","e","e","s">>
    ELSE IF AnyIn(query_lower, { <<"a","v","e","r","a","g","e">>, <<"a","v","g">>, <<"m","e","a","n">>, <<"s","t","a","t","i","s","t","i","c","s">> })
            /\ AnyIn(query_lower, { <<"o","r","d","e","r">>, <<"a","m","o","u","n","t">> })
    THEN <<"S","E","L","E","C","T"," ","A","V","G","(","t","o","t","a","l","_","a","m","o","u","n","t",")"," ","a","s"," ","a","v","e","r","a","g","e","_","o","r","d","e","r",","," ","M","I","N","(","t","o","t","a","l","_","a","m","o","u","n","t",")"," ","a","s"," ","m","i","n","_","o","r","d","e","r",","," ","M","A","X","(","t","o","t","a","l","_","a","m","o","u","n","t",")"," ","a","s"," ","m","a","x","_","o","r","d","e","r"," ","F","R","O","M"," ","o","r","d","e","r","s">>
    ELSE TablesByName

\* an entry of tool_executions as the servers write it
Execution(tool_name, input, output, status) ==
    [tool_name |-> tool_name, input |-> input, output |-> output, status |-> status,
     timestamp |-> "now"]

\* Status.SUCCESS.value if ... else Status.ERROR.value
StatusValue(ok) == IF ok THEN "success" ELSE "error"

\* DatabaseManager.execute_query where _get_connection can fail (up is
\* FALSE: the file cannot be opened or is locked): the error is returned
db_execute_query(d, query, up) ==
    IF up THEN execute_query(d, query)
    ELSE QueryResult(d, query, [ok |-> FALSE])

\* DatabaseManager.get_schema_info
get_schema_info(up) ==
    IF up
    THEN [database_path |-> "db_path", tables |-> TableOrder,
          total_tables |-> Len(TableOrder), total_indexes |-> "indexes",
          database_size_mb |-> "size",
          oracle_compatibility |-> [foreign_keys_enabled |-> TRUE, wal_mode |-> TRUE,
                                    transaction_support |-> TRUE]]
    ELSE [error |-> "str(e)"]

\* MCP.get_database_schema
MCP_get_database_schema(up) ==
    [status |-> "success", data |-> get_schema_info(up), timestamp |-> "now"]

\* MCP.execute_oracle_query, from the result of execute_query on: execute_query
\* raises nothing, so the except branch is never taken
oracle_query_envelope(queried) ==
    [status |-> "success",
     data |-> Get(queried, "data", <<>>),
     row_count |-> Get(queried, "row_count", 0),
     execution_time |-> Get(queried, "execution_time", 0),
     timestamp |-> "now"]

\* MCP.execute_oracle_query: [db, ret], and the execute_query call it made
MCP_execute_oracle_query(d, query, up) ==
    [db |-> db_execute_query(d, query, up).db,
     ret |-> oracle_query_envelope(db_execute_query(d, query, up).result),
     executed |-> Executed(query, db_execute_query(d, query, up).result)]

\* what a handler hands back, with what it did on the way: the database it
\* leaves, the statements it had execute_query run, the requests it sent,
\* its calls of the tools and of the LLM in their order
Handled(d, response, tool_executions, ran, sent, did) ==
    [db |-> d, response |-> response, tool_executions |-> tool_executions,
     executed |-> ran, requests |-> sent, events |-> did]

\* a handler that is not called
NotHandled(d) == Handled(d, <<>>, <<>>, <<>>, <<>>, <<>>)

\* MCP._handle_database_query: schema exploration
explore_schema(d, query, intent, schema_result, response) ==
    Handled(d, response,
            <<Execution("oracle_schema_explorer", [query |-> query, intent |-> intent],
                        schema_result, StatusValue(schema_result.status = "success"))>>,
            <<>>, <<>>, <<"schema">>)

schema_response(schema_result) ==
    IF schema_result.status # "success"
    THEN <<"Failed to retrieve schema information: ",
           Get(schema_result, "error_message", "Unknown error")>>
    ELSE IF Get(schema_result.data, "tables", <<>>) # <<>>
    THEN <<"Database schema retrieved successfully. Found tables.">>
    ELSE <<"Database schema retrieved but no tables found.">>

\* MCP._handle_database_query: a statement through execute_oracle_query
run_statement(sql_query, intent, ran, succeeded, failed) ==
    Handled(ran.db,
            IF ran.ret.status = "success"
            THEN <<succeeded>>
            ELSE <<failed, Get(ran.ret, "error_message", "Unknown error")>>,
            <<Execution("oracle_query_executor", [sql_query |-> sql_query, intent |-> intent],
                        ran.ret, StatusValue(ran.ret.status = "success"))>>,
            ran.executed, <<>>, <<"sql">>)

\* MCP._handle_database_query; nothing it calls raises, so its except branch
\* (the error_handler entry) is never taken
handle_database_query(d, query, analysis, up) ==
    IF analysis.query_intent = "schema_exploration"
       \/ AnyIn(Lower(query), { <<"s","c","h","e","m","a">>, <<"s","t","r","u","c","t","u","r","e">>, <<"t","a","b","l","e","s">>, <<"m","e","t","a","d","a","t","a">> })
    THEN explore_schema(d, query, "schema_exploration", MCP_get_database_schema(up),
                        schema_response(MCP_get_database_schema(up)))
    ELSE IF analysis.query_intent = "data_retrieval"
            \/ AnyIn(Lower(query), { <<"e","m","p","l","o","y","e","e">>, <<"d","e","p","a","r","t","m","e","n","t">>, <<"o","r","d","e","r">>, <<"c","u","s","t","o","m","e","r">>,
                                     <<"s","h","o","w">>, <<"g","e","t">>, <<"l","i","s","t">> })
    THEN run_statement(generate_sql_from_query(Lower(query)), "data_retrieval",
                       MCP_execute_oracle_query(d, generate_sql_from_query(Lower(query)), up),
                       "Query executed successfully.", "Query execution failed: ")
    ELSE IF Contains(Lower(query), <<"s","e","l","e","c","t">>)
    THEN run_statement(query, "custom_sql", MCP_execute_oracle_query(d, query, up),
                       "SQL query executed successfully.", "SQL execution failed: ")
    ELSE IF Contains(Lower(query), <<"s","q","l">>)
    THEN run_statement(generate_sql_from_query(Lower(query)), "custom_sql",
                       MCP_execute_oracle_query(d, generate_sql_from_query(Lower(query)), up),
                       "SQL query executed successfully.", "SQL execution failed: ")
    ELSE explore_schema(d, query, "default_exploration", MCP_get_database_schema(up),
                        <<"I'll show you the available database information.">>)

\* MCP._format_api_response
format_api_response(api_result) ==
    IF Get(api_result, "status", "None") = "success"
    THEN <<"API request successful.">>
    ELSE <<"API request failed: ", Get(api_result, "error_message", "Unknown error")>>

\* MCP._handle_api_request_with_tools, from the tool's answer on; json.loads
\* gives back the dictionary the tool dumped
api_request_handled(d, query, tool_name, answer) ==
    Handled(d, format_api_response(answer.ret),
            <<Execution(tool_name, [query |-> query], answer.ret,
                        StatusValue(Get(answer.ret, "status", "None") = "success"))>>,
            <<>>, answer.sent, IF answer.sent = <<>> THEN <<>> ELSE <<"http">>)

\* MCP._handle_api_request_with_tools
handle_api_request_with_tools(d, query, outcome) ==
    IF AnyIn(Lower(query), { <<"c","o","m","p","l","e","x">>, <<"a","u","t","h">> })
    THEN api_request_handled(d, query, "http_request_tool",
                             HTTPRequestTool_run(<<"h","t","t","p","s",":","/","/","a","p","i",".","e","x","a","m","p","l","e",".","c","o","m","/","d","a","t","a">>, <<"G","E","T">>,
                                                 outcome))
    ELSE api_request_handled(d, query, "api_caller",
                             APICallTool_run(<<"h","t","t","p","s",":","/","/","j","s","o","n","p","l","a","c","e","h","o","l","d","e","r",".","t","y","p","i","c","o","d","e",".","c","o","m","/","p","o","s","t","s","/","1">>,
                                             <<"G","E","T">>, outcome))

\* what the LLM does when it is called: it answers with a text, with no
\* content, or the call raises; "no client" is openai_client = None
LlmOutcomes == {"no client", "text", "no content", "raises"}

\* the calls of chat.completions.create a method makes
LlmCalled(llm) == IF llm = "no client" THEN <<>> ELSE <<"llm">>

\* MCP.get_status: check_database_connection, check_openai_connection (a
\* completion is asked of the LLM), the tools of get_available_tools
get_status(up, llm) ==
    [database |-> up, openai |-> llm \in {"text", "no content"},
     available_tools |-> "len(self.available_tools)", timestamp |-> "now"]

\* MCP._handle_system_query
handle_system_query(d, query, up, llm) ==
    Handled(d, <<"System Status Report:">>,
            <<Execution("system_status_monitor",
                        [query |-> query, intent |-> "system_monitoring"],
                        get_status(up, llm), "success")>>,
            <<>>, <<>>, <<"status">> \o LlmCalled(llm))

\* MCP._generate_ai_response
generate_ai_response(llm) ==
    CASE llm = "no client" ->
           <<"I'm an Oracle ADB assistant. How can I help you with database operations?">>
      [] llm = "text" -> <<"response.choices[0].message.content">>
      [] llm = "no content" -> <<"No response generated">>
      [] llm = "raises" -> <<"I couldn't generate a response. Please try again later.">>

\* filter(None, response_parts)
NonEmpty(parts) == SelectSeq(parts, LAMBDA part : part # <<>>)

\* "\n\n".join(parts)
RECURSIVE JoinParts(_)
JoinParts(parts) ==
    IF parts = <<>> THEN <<>>
    ELSE IF Len(parts) = 1 THEN parts[1]
    ELSE parts[1] \o <<"\n\n">> \o JoinParts(Tail(parts))

\* x or default
Or(text, default) == IF text = <<>> THEN default ELSE text

\* the dictionary execute_agent_query returns in its try branch
agent_result(response, tool_executions) ==
    [response |-> response, tool_executions |-> tool_executions,
     timestamp |-> "start_time", execution_time |-> "elapsed", status |-> "success"]

\* the dictionary execute_agent_query returns in its except branch
agent_error(message, error) ==
    [response |-> <<message, error>>, tool_executions |-> <<>>, timestamp |-> "now",
     status |-> "error", error |-> error]

\* what execute_agent_query hands back, with what it did on the way
Agent(d, ret, ran, sent, did) ==
    [db |-> d, ret |-> ret, executed |-> ran, requests |-> sent, events |-> did]

\* the parts of the handlers that ran, in their order
PartsOf(handled) == [i \in DOMAIN handled |-> handled[i].response]

\* MCP.execute_agent_query, from the handlers' answers on: handled holds the
\* answers of the handlers that were called
agent_answered(d, handled, with_ai, llm) ==
    Agent(d,
          agent_result(
              Or(JoinParts(NonEmpty(PartsOf(handled)
                                    \o (IF with_ai THEN <<generate_ai_response(llm)>>
                                        ELSE <<>>))),
                 <<"How can I assist you?">>),
              Join([i \in DOMAIN handled |-> handled[i].tool_executions])),
          Join([i \in DOMAIN handled |-> handled[i].executed]),
          Join([i \in DOMAIN handled |-> handled[i].requests]),
          <<"match">> \o Join([i \in DOMAIN handled |-> handled[i].events])
              \o (IF with_ai THEN LlmCalled(llm) ELSE <<>>))

\* MCP.execute_agent_query: the handlers of the kinds the query is of
agent_handlers(query, analysis, database, api, system) ==
    (IF analysis.is_database_query THEN <<database>> ELSE <<>>)
    \o (IF analysis.is_api_request THEN <<api>> ELSE <<>>)
    \o (IF analysis.is_system_query THEN <<system>> ELSE <<>>)

\* MCP.execute_agent_query, the database handler done
agent_after_database(query, analysis, database, up, outcome, llm) ==
    agent_answered(database.db,
                   agent_handlers(query, analysis, database,
                                  handle_api_request_with_tools(database.db, query, outcome),
                                  handle_system_query(database.db, query, up, llm)),
                   ~ (analysis.is_database_query \/ analysis.is_api_request
                      \/ analysis.is_system_query) \/ analysis.requires_ai,
                   llm)

\* MCP.execute_agent_query; no handler raises, so its except branch is never
\* taken
MCP_execute_agent_query(d, query, up, outcome, llm) ==
    agent_after_database(query, analyze_query(query),
                         IF analyze_query(query).is_database_query
                         THEN handle_database_query(d, query, analyze_query(query), up)
                         ELSE NotHandled(d),
                         up, outcome, llm)

\* SimpleMCPServer.execute_oracle_query, from the result of execute_query on
simple_oracle_result(queried, query) ==
    IF Get(queried, "status", "None") = "success"
    THEN IF StartsWith(Strip(Upper(query)), <<"S","E","L","E","C","T">>)
         THEN With(oracle_result(queried, Get(queried, "data", <<>>)), "query_plan",
                   query_plan(Get(queried, "data", <<>>)))
         ELSE oracle_result(queried, Get(queried, "data", <<>>))
    ELSE [status |-> "error", error_code |-> "ORA-00942",
          error_message |-> Get(queried, "error", "Unknown Oracle error"),
          timestamp |-> "now"]

\* SimpleMCPServer.execute_oracle_query: [db, ret], and the execute_query
\* call it made
Simple_execute_oracle_query(d, query, up) ==
    [db |-> db_execute_query(d, query, up).db,
     ret |-> simple_oracle_result(db_execute_query(d, query, up).result, query),
     executed |-> Executed(query, db_execute_query(d, query, up).result)]

needs_db_keywords ==
    { <<"s","e","l","e","c","t">>, <<"i","n","s","e","r","t">>, <<"u","p","d","a","t","e">>, <<"d","e","l","e","t","e">>, <<"t","a","b","l","e">>, <<"d","a","t","a","b","a","s","e">>,
      <<"e","m","p","l","o","y","e","e">>, <<"d","e","p","a","r","t","m","e","n","t">>, <<"o","r","d","e","r">>, <<"p","r","o","d","u","c","t">>, <<"s","q","l">>, <<"q","u","e","r","y">> }

needs_api_keywords ==
    { <<"a","p","i">>, <<"h","t","t","p">>, <<"r","e","q","u","e","s","t">>, <<"c","a","l","l">>, <<"e","x","t","e","r","n","a","l">>, <<"s","e","r","v","i","c","e">>, <<"e","n","d","p","o","i","n","t">> }

\* SimpleMCPServer.execute_agent_query: the sample query of a question
sample_query(query_lower) ==
    IF Contains(query_lower, <<"e","m","p","l","o","y","e","e">>) THEN <<"S","E","L","E","C","T"," ","*"," ","F","R","O","M"," ","e","m","p","l","o","y","e","e","s"," ","L","I","M","I","T"," ","1","0">>
    ELSE IF Contains(query_lower, <<"d","e","p","a","r","t","m","e","n","t">>) THEN <<"S","E","L","E","C","T"," ","*"," ","F","R","O","M"," ","d","e","p","a","r","t","m","e","n","t","s">>
    ELSE IF Contains(query_lower, <<"o","r","d","e","r">>) THEN <<"S","E","L","E","C","T"," ","*"," ","F","R","O","M"," ","o","r","d","e","r","s"," ","L","I","M","I","T"," ","1","0">>
    ELSE <<"S","E","L","E","C","T"," ","n","a","m","e"," ","F","R","O","M"," ","s","q","l","i","t","e","_","m","a","s","t","e","r"," ","W","H","E","R","E"," ","t","y","p","e","=","'","t","a","b","l","e","'">>

\* SimpleMCPServer.execute_agent_query: the sample query is run after the
\* LLM has answered
sample_queried(sql_query, ran) ==
    Handled(ran.db,
            IF Get(ran.ret, "status", "None") = "success"
            THEN <<"\n\nQuery Results:\n", "json.dumps(query_result)">>
            ELSE <<>>,
            <<Execution("oracle_query_executor", sql_query, ran.ret, "completed")>>,
            ran.executed, <<>>, <<"sql">>)

\* SimpleMCPServer.execute_agent_query: the example API call
example_called(d, answer) ==
    Handled(d, <<>>,
            <<Execution("api_caller", <<"h","t","t","p","s",":","/","/","j","s","o","n","p","l","a","c","e","h","o","l","d","e","r",".","t","y","p","i","c","o","d","e",".","c","o","m","/","p","o","s","t","s","/","1">>,
                        answer.ret, "completed")>>,
            <<>>, answer.sent, IF answer.sent = <<>> THEN <<>> ELSE <<"http">>)

\* an execute_agent_query that asks the LLM after it has run the tools
simple_answered_llm_last(agent_response, called, database, api) ==
    Agent(database.db,
          agent_result(database.response \o agent_response,
                       database.tool_executions \o api.tool_executions),
          database.executed, api.requests,
          <<"match">> \o database.events \o api.events \o called)

\* SimpleMCPServer.execute_agent_query, from the LLM's answer on
simple_answered(agent_response, called, database, api) ==
    Agent(database.db,
          agent_result(agent_response \o database.response,
                       database.tool_executions \o api.tool_executions),
          database.executed, api.requests,
          <<"match">> \o called \o database.events \o api.events)

\* SimpleMCPServer.execute_agent_query, the sample query done
simple_after_database(query_lower, agent_response, called, database, outcome) ==
    simple_answered(agent_response, called, database,
                    IF AnyIn(query_lower, needs_api_keywords)
                       /\ Contains(query_lower, <<"e","x","a","m","p","l","e">>)
                    THEN example_called(database.db,
                             make_api_call(<<"h","t","t","p","s",":","/","/","j","s","o","n","p","l","a","c","e","h","o","l","d","e","r",".","t","y","p","i","c","o","d","e",".","c","o","m","/","p","o","s","t","s","/","1">>,
                                           <<"G","E","T">>, outcome))
                    ELSE NotHandled(database.db))

\* SimpleMCPServer.execute_agent_query, its try branch; the constructor
\* raises when it gets no client, so openai_client is never None
simple_agent_query(d, query_lower, agent_response, called, up, outcome) ==
    simple_after_database(query_lower, agent_response, called,
        IF AnyIn(query_lower, needs_db_keywords)
           /\ AnyIn(query_lower, { <<"s","e","l","e","c","t">>, <<"s","h","o","w">>, <<"l","i","s","t">> })
        THEN sample_queried(sample_query(query_lower),
                            Simple_execute_oracle_query(d, sample_query(query_lower), up))
        ELSE NotHandled(d),
        outcome)

\* SimpleMCPServer.execute_agent_query
Simple_execute_agent_query(d, query, up, outcome, llm) ==
    CASE llm = "raises" ->
           Agent(d, agent_error("I encountered an error while processing your request: ",
                                "str(e)"),
                 <<>>, <<>>, <<"match", "llm">>)
      [] llm = "no client" ->
           simple_agent_query(d, Lower(query), <<"OpenAI client not initialized properly">>,
                              <<>>, up, outcome)
      [] llm = "text" ->
           simple_agent_query(d, Lower(query), <<"response.choices[0].message.content">>,
                              <<"llm">>, up, outcome)
      [] llm = "no content" ->
           simple_agent_query(d, Lower(query), <<>>, <<"llm">>, up, outcome)

\* dict.update of the last entry of a list
UpdateLast(list, other) ==
    IF list = <<>> THEN list
    ELSE [list EXCEPT ![Len(list)] = Update(list[Len(list)], other)]

\* ToolExecutionCallback.on_tool_start
on_tool_start(tool_executions, name, input_str) ==
    Append(tool_executions,
           [tool_name |-> name, input |-> input_str, timestamp |-> "now",
            status |-> "started"])

\* an on_tool_end that marks the entry completed and forgets the output
on_tool_end_status_only(tool_executions, output) ==
    UpdateLast(tool_executions, [status |-> "completed", end_timestamp |-> "now"])

\* ToolExecutionCallback.on_tool_end
on_tool_end(tool_executions, output) ==
    UpdateLast(tool_executions,
               [output |-> output, status |-> "completed", end_timestamp |-> "now"])

\* ToolExecutionCallback.on_tool_error
on_tool_error(tool_executions, error) ==
    UpdateLast(tool_executions,
               [error |-> error, status |-> "error", end_timestamp |-> "now"])

\* The text json.dumps(envelope) is the record [json |-> envelope]; a text
\* that is no JSON is the record [text |-> text].
Dumped(envelope) == [json |-> envelope]

Plain(text) == [text |-> text]

\* MCPServer.execute_agent_query: json.loads of an output that is a text,
\* the text kept when it is no JSON
parse_output(execution) ==
    IF "output" \in DOMAIN execution /\ DOMAIN execution.output = {"json"}
    THEN With(execution, "output", execution.output.json)
    ELSE execution

\* the state of agent.run: the database, the callback's list, what was done
Running(d, tool_executions, ran, sent, did, raised) ==
    [db |-> d, tool_executions |-> tool_executions, executed |-> ran, requests |-> sent,
     events |-> did, raised |-> raised]

\* The steps the LLM can have the agent take: a query tool call, an API
\* tool call, the name of no tool (the agent answers with a text), a tool
\* call that raises (LangChain tells the callback and raises out of
\* agent.run).
AgentSteps ==
    { [tool |-> "oracle_query_executor",
       input |-> <<"I","N","S","E","R","T"," ","I","N","T","O"," ","d","e","p","a","r","t","m","e","n","t","s"," ","(","d","e","p","a","r","t","m","e","n","t","_","i","d",","," ","d","e","p","a","r","t","m","e","n","t","_","n","a","m","e",")"," ","V","A","L","U","E","S"," ","(","7","0",","," ","'","N","e","w","'",")">>],
      [tool |-> "oracle_query_executor", input |-> <<"S","E","L","E","C","T"," ","*"," ","F","R","O","M"," ","n","o","s","u","c","h">>],
      [tool |-> "api_caller", input |-> <<"h","t","t","p","s",":","/","/","a","p","i",".","e","x","a","m","p","l","e",".","c","o","m","/","v","1">>],
      [tool |-> "invalid_tool", input |-> <<"n","o","s","u","c","h","_","t","o","o","l">>],
      [tool |-> "raises", input |-> <<"{","}">>] }

\* the oracle tool ran: on_tool_end
oracle_step_done(run, out) ==
    Running(out.db, on_tool_end(run.tool_executions, Dumped(out.ret)),
            run.executed \o out.executed, run.requests, run.events \o <<"sql">>, FALSE)

\* the API tool ran: on_tool_end
api_step_done(run, answer) ==
    Running(run.db, on_tool_end(run.tool_executions, Dumped(answer.ret)),
            run.executed, run.requests \o answer.sent,
            run.events \o (IF answer.sent = <<>> THEN <<>> ELSE <<"http">>), FALSE)

\* one tool call of agent.run, on_tool_start done.  A tool that returns
\* ends with on_tool_end (the tools of this repository catch their own
\* exceptions and return an error envelope).  A tool call that raises (its
\* arguments do not fit args_schema) ends with on_tool_error, and the
\* library's BaseTool.run raises the exception again: it leaves agent.run,
\* so the entry with the error is never part of a returned result.
agent_step(run, step, outcome) ==
    CASE step.tool = "oracle_query_executor" ->
           oracle_step_done(run, OracleQueryTool_run(run.db, <<>>, step.input))
      [] step.tool = "api_caller" ->
           api_step_done(run, APICallTool_run(step.input, <<"G","E","T">>, outcome))
      [] step.tool = "invalid_tool" ->
           [run EXCEPT !.tool_executions = on_tool_end(@, Plain("invalid_tool is not a valid tool"))]
      [] step.tool = "raises" ->
           [run EXCEPT !.tool_executions = on_tool_error(@, "str(error)"),
                       !.raised = TRUE]

Started(run, step) ==
    [run EXCEPT !.tool_executions = on_tool_start(@, step.tool, step.input),
                !.events = @ \o <<"llm">>]

\* self.agent.run(input=query, callbacks=[callback_handler]): the LLM is
\* asked, a tool is run, and so on until the LLM answers or a call raises
RECURSIVE agent_run(_, _, _)
agent_run(run, plan, outcome) ==
    IF plan = <<>> \/ run.raised THEN run
    ELSE agent_run(agent_step(Started(run, Head(plan)), Head(plan), outcome),
                   Tail(plan), outcome)

\* an except branch that hands back the entries the callback has collected
agent_ran_keeping_records(run, llm) ==
    IF run.raised \/ llm = "raises"
    THEN Agent(run.db,
               [response |-> <<"I encountered an error while processing your request: ">>,
                tool_executions |-> run.tool_executions, timestamp |-> "now",
                status |-> "error", error |-> "str(e)"],
               run.executed, run.requests, run.events)
    ELSE Agent(run.db,
               [response |-> IF llm = "text" THEN <<"response">> ELSE <<>>,
                tool_executions |-> run.tool_executions,
                timestamp |-> "now", status |-> "success"],
               run.executed, run.requests, run.events \o <<"llm">>)

\* MCPServer.execute_agent_query, agent.run done: the LLM's last answer is
\* the response
agent_ran(run, llm) ==
    IF run.raised \/ llm = "raises"
    THEN Agent(run.db,
               agent_error("I encountered an error while processing your request: ",
                           "str(e)"),
               run.executed, run.requests,
               run.events \o (IF run.raised THEN <<>> ELSE <<"llm">>))
    ELSE Agent(run.db,
               [response |-> IF llm = "text" THEN <<"response">> ELSE <<>>,
                tool_executions |-> [i \in DOMAIN run.tool_executions |->
                                        parse_output(run.tool_executions[i])],
                timestamp |-> "now", status |-> "success"],
               run.executed, run.requests, run.events \o <<"llm">>)

\* MCPServer.execute_agent_query (mcp_server)
LangChain_execute_agent_query(d, plan, outcome, llm) ==
    agent_ran(agent_run(Running(d, <<>>, <<>>, <<>>, <<>>, FALSE), plan, outcome), llm)

(***************************************************************************)
(* SpecAgent: one execute_agent_query of one of the servers, or one        *)
(* MCP.execute_oracle_query; the database, the network and the LLM answer  *)
(* as they like.                                                           *)
(***************************************************************************)

\* the most tool calls of one agent.run in the model
MaxToolCalls == 2

AgentQueries ==
    { <<"s","h","o","w"," ","e","m","p","l","o","y","e","e","s">>, <<"l","i","s","t"," ","t","a","b","l","e","s">>, <<"S","E","L","E","C","T"," ","*"," ","F","R","O","M"," ","p","r","o","d","u","c","t","s">>,
      <<"S","E","L","E","C","T"," ","*"," ","F","R","O","M"," ","n","o","s","u","c","h">>, <<"c","a","l","l"," ","t","h","e"," ","e","x","a","m","p","l","e"," ","a","p","i">>, <<"a","u","t","h"," ","r","e","q","u","e","s","t">>,
      <<"s","t","a","t","u","s">>, <<"h","e","l","l","o">>, <<"f","i","n","d"," ","d","a","t","a">>, <<"s","q","l"," ","a","v","e","r","a","g","e"," ","s","a","l","a","r","y">>,
      <<"l","i","s","t"," ","e","x","a","m","p","l","e"," ","a","p","i"," ","t","a","b","l","e","s">> }

AgentPlans == UNION { [1..n -> AgentSteps] : n \in 0..MaxToolCalls }

Servers == {"MCP", "SimpleMCPServer", "MCPServer"}

AgentCall(server, query) ==
    [tool |-> server, thread |-> "none", operation |-> <<>>, input |-> query]

AgentReturned(out) ==
    /\ db' = out.db
    /\ result' = out.ret
    /\ executed' = out.executed
    /\ requests' = out.requests
    /\ events' = out.events
    /\ UNCHANGED <<transaction_connections, manager_vars, user_query, session_state, environ>>

McpQuery(query, up, outcome, llm) ==
    /\ call = NoCall
    /\ call' = AgentCall("MCP", query)
    /\ AgentReturned(MCP_execute_agent_query(db, query, up, outcome, llm))

SimpleQuery(query, up, outcome, llm) ==
    /\ call = NoCall
    /\ call' = AgentCall("SimpleMCPServer", query)
    /\ AgentReturned(Simple_execute_agent_query(db, query, up, outcome, llm))

LangChainQuery(plan, outcome, llm) ==
    /\ call = NoCall
    /\ call' = AgentCall("MCPServer", plan)
    /\ AgentReturned(LangChain_execute_agent_query(db, plan, outcome, llm))

OracleQuery(query, up) ==
    /\ call = NoCall
    /\ call' = AgentCall("execute_oracle_query", query)
    /\ AgentReturned(Agent(MCP_execute_oracle_query(db, query, up).db,
                           MCP_execute_oracle_query(db, query, up).ret,
                           MCP_execute_oracle_query(db, query, up).executed, <<>>, <<>>))

NextAgent ==
    \/ \E query \in AgentQueries, up \in BOOLEAN, outcome \in NetworkOutcomes,
          llm \in LlmOutcomes :
           \/ McpQuery(query, up, outcome, llm)
           \/ SimpleQuery(query, up, outcome, llm)
    \/ \E plan \in AgentPlans, outcome \in NetworkOutcomes, llm \in LlmOutcomes \ {"no client"} :
           LangChainQuery(plan, outcome, llm)
    \/ \E query \in StatementTexts \cup { <<"S","E","L","E","C","T"," ","*"," ","F","R","O","M"," ","n","o","s","u","c","h">> }, up \in BOOLEAN :
           OracleQuery(query, up)

SpecAgent == Init /\ [][NextAgent]_vars

RecordFields == {"tool_name", "input", "output", "status", "timestamp"}

\* C13: every entry of the tool_executions that execute_agent_query of a
\* server returns has the five fields tool_name, input, output, status and
\* timestamp, the entries of tools that failed included.
C13_RecordsComplete ==
    call.tool \in Servers =>
        \A i \in DOMAIN result.tool_executions :
            RecordFields \subseteq DOMAIN result.tool_executions[i]

\* a server returned the entry of a tool call that failed
C13_Witness ==
    /\ call.tool \in Servers
    /\ \E i \in DOMAIN result.tool_executions :
           result.tool_executions[i].status = "error"

ToolEvents == {"sql", "schema", "http"}

\* the text the LLM answered with, as the servers put it into the response
LlmText == "response.choices[0].message.content"

\* the places of a piece in a text
Places(text, piece) == {i \in DOMAIN text : text[i] = piece}

\* C14 as the specification states it: the keyword match comes first, the
\* SQL execution and the HTTP GET next, an LLM call only after them, and
\* the response is the parts in that order, the LLM's last.
C14_ToolsBeforeLlm ==
    call.tool \in {"MCP", "SimpleMCPServer"} /\ result.status = "success" =>
        /\ events[1] = "match"
        /\ \A i, j \in DOMAIN events :
               (i < j /\ events[i] = "llm") => events[j] \notin ToolEvents
        /\ Places(result.response, LlmText) \subseteq {Len(result.response)}

\* C14, amended: both servers match the keywords first.  MCP then runs the
\* database handler, the API handler and the status handler in this order
\* and asks the LLM for the answer last; the response is the parts in this
\* order.  SimpleMCPServer asks the LLM first (when it has a client), then
\* runs the sample query, then the example API call; its response is the
\* LLM's text followed by the query results.
C14_OrderPerServer ==
    /\ call.tool = "MCP" =>
           /\ events[1] = "match"
           /\ \A i, j \in DOMAIN events :
                  /\ (i < j /\ events[i] = "llm") => events[j] = "llm"
                  /\ (i < j /\ events[i] = "http") => events[j] \notin {"sql", "schema"}
                  /\ (i < j /\ events[i] = "status") => events[j] = "llm"
           /\ Places(result.response, LlmText) \subseteq {Len(result.response)}
    /\ call.tool = "SimpleMCPServer" =>
           /\ events[1] = "match"
           /\ Places(events, "llm") \subseteq {2}
           /\ \A i, j \in DOMAIN events :
                  (i < j /\ events[i] = "http") => events[j] # "sql"
           /\ result.status = "success" =>
                  /\ Places(result.response, LlmText) \subseteq {1}
                  /\ \A i \in Places(result.response, "\n\nQuery Results:\n") :
                         i = Len(result.response) - 1

\* SimpleMCPServer asked the LLM, then ran the sample query
C14_Witness ==
    /\ call.tool = "SimpleMCPServer"
    /\ events = <<"match", "llm", "sql">>
    /\ result.response[1] = LlmText
    /\ Len(result.response) = 3

AgentFields == {"response", "tool_executions", "timestamp", "status"}

\* C15 as it is stated: execute_agent_query returns a dictionary with a
\* response that is not empty, tool_executions, a timestamp and a status
\* success or error, and tool_executions is empty when the status is error.
C15_Envelope ==
    call.tool \in Servers =>
        /\ AgentFields \subseteq DOMAIN result
        /\ result.response # <<>>
        /\ result.status \in {"success", "error"}
        /\ result.status = "error" => result.tool_executions = <<>>

\* C15, amended: the dictionary has response, tool_executions, timestamp
\* and a status success or error; tool_executions is empty when the status
\* is error.  The response is not empty when MCP returns it and when the
\* status is error; SimpleMCPServer and MCPServer return the text of the
\* LLM, which is empty when the LLM answers with no content and
\* SimpleMCPServer has no results of a successful sample query to append.
C15_EnvelopePerServer ==
    call.tool \in Servers =>
        /\ AgentFields \subseteq DOMAIN result
        /\ result.status \in {"success", "error"}
        /\ result.status = "error" =>
               result.tool_executions = <<>> /\ result.response # <<>>
        /\ call.tool = "MCP" => result.response # <<>>
        /\ result.response = <<>> =>
               /\ call.tool \in {"SimpleMCPServer", "MCPServer"}
               /\ call.tool = "SimpleMCPServer" =>
                      \A i \in DOMAIN executed : executed[i].status # "success"

\* a tool call raised out of agent.run: the status is error and the entry
\* of the call is not handed back
C15_Witness ==
    /\ call.tool = "MCPServer"
    /\ result.status = "error"
    /\ "sql" \in Range(events)
    /\ result.tool_executions = <<>>

\* C19: MCP.execute_oracle_query returns status error with an
\* error_message when the database fails to execute the statement, and
\* status success only when the statement was executed.
C19_FailureReported ==
    call.tool = "execute_oracle_query" =>
        /\ executed[1].status = "error" =>
               result.status = "error" /\ "error_message" \in DOMAIN result
        /\ result.status = "success" => executed[1].status = "success"

(***************************************************************************)
(* SpecChat: the chat page (app.py, simple_app.py).  Both import the name  *)
(* WorkingMCPServer, which working_mcp_server does not define; the page is *)
(* modelled with the server that module does define, MCP.                  *)
(***************************************************************************)

\* the most questions asked before the conversation is cleared
MaxExchanges == 2

DEPLOYMENT_PRESETS ==
    [name \in {"Development", "Production", "Testing", "Demo"} |->
        CASE name = "Development" ->
               [LOG_LEVEL |-> "DEBUG", API_TIMEOUT |-> "30", API_MAX_RETRIES |-> "3",
                CACHE_TOOL_RESULTS |-> "true", ENVIRONMENT |-> "development"]
          [] name = "Production" ->
               [LOG_LEVEL |-> "INFO", API_TIMEOUT |-> "15", API_MAX_RETRIES |-> "5",
                CACHE_TOOL_RESULTS |-> "true", ENVIRONMENT |-> "production"]
          [] name = "Testing" ->
               [LOG_LEVEL |-> "WARNING", API_TIMEOUT |-> "60", API_MAX_RETRIES |-> "1",
                CACHE_TOOL_RESULTS |-> "false", ENVIRONMENT |-> "testing"]
          [] name = "Demo" ->
               [LOG_LEVEL |-> "INFO", API_TIMEOUT |-> "20", API_MAX_RETRIES |-> "2",
                CACHE_TOOL_RESULTS |-> "true", ENVIRONMENT |-> "demo"]]

\* apply_preset_config with a loop that stops after the first variable
apply_first_only(env, preset_name) ==
    IF preset_name \in DOMAIN DEPLOYMENT_PRESETS
    THEN [env |-> With(env, "LOG_LEVEL", DEPLOYMENT_PRESETS[preset_name].LOG_LEVEL),
          returned |-> TRUE]
    ELSE [env |-> env, returned |-> FALSE]

\* apply_preset_config: [env, returned]
apply_preset_config(env, preset_name) ==
    IF preset_name \in DOMAIN DEPLOYMENT_PRESETS
    THEN [env |-> Update(env, DEPLOYMENT_PRESETS[preset_name]), returned |-> TRUE]
    ELSE [env |-> env, returned |-> FALSE]

\* init_mcp_server: os.environ["OPENAI_API_KEY"] = api_key
init_mcp_server(env, api_key) == With(env, "OPENAI_API_KEY", api_key)

\* main: the two messages of a question that was answered
answered_messages(messages, prompt, answer) ==
    messages \o <<[role |-> "user", content |-> prompt],
                  [role |-> "assistant", content |-> answer.response,
                   tool_executions |-> Get(answer, "tool_executions", <<>>)]>>

\* main: the two messages of a question whose processing raised
failed_messages(messages, prompt) ==
    messages \o <<[role |-> "user", content |-> prompt],
                  [role |-> "assistant", content |-> <<"Error processing request: ", "str(e)">>]>>

ChatQueries == { <<"s","h","o","w"," ","e","m","p","l","o","y","e","e","s">>, <<"h","e","l","l","o">>, <<"c","a","l","l"," ","t","h","e"," ","e","x","a","m","p","l","e"," ","a","p","i">> }

PresetNames == DOMAIN DEPLOYMENT_PRESETS \cup {"Staging", "demo"}

UserMessages == Places([i \in DOMAIN session_state.messages |->
                           session_state.messages[i].role], "user")

\* main: a question from the chat input or from an example button is
\* processed by a new server
Chat(prompt, up, outcome, llm) ==
    /\ Cardinality(UserMessages) < MaxExchanges
    /\ call' = AgentCall("chat", prompt)
    /\ environ' = init_mcp_server(environ, "api_key_input")
    /\ session_state' =
           [session_state EXCEPT !.messages =
               answered_messages(@, prompt,
                                 MCP_execute_agent_query(db, prompt, up, outcome, llm).ret)]
    /\ db' = MCP_execute_agent_query(db, prompt, up, outcome, llm).db
    /\ result' = MCP_execute_agent_query(db, prompt, up, outcome, llm).ret
    /\ executed' = MCP_execute_agent_query(db, prompt, up, outcome, llm).executed
    /\ requests' = MCP_execute_agent_query(db, prompt, up, outcome, llm).requests
    /\ events' = MCP_execute_agent_query(db, prompt, up, outcome, llm).events
    /\ UNCHANGED <<transaction_connections, manager_vars, user_query>>

\* main: the server cannot be made (its constructor raises)
ChatFails(prompt) ==
    /\ Cardinality(UserMessages) < MaxExchanges
    /\ call' = AgentCall("chat failed", prompt)
    /\ environ' = init_mcp_server(environ, "api_key_input")
    /\ session_state' = [session_state EXCEPT !.messages = failed_messages(@, prompt)]
    /\ result' = [status |-> "none"]
    /\ UNCHANGED <<db, transaction_connections, executed, requests, manager_vars,
                   user_query, events>>

\* main: the button Clear Conversation
ClearConversation ==
    /\ call' = AgentCall("clear", <<>>)
    /\ session_state' = [messages |-> <<>>, tool_executions |-> <<>>]
    /\ UNCHANGED <<db, transaction_connections, result, executed, requests, manager_vars,
                   user_query, environ, events>>

\* main: the button Apply Preset
ApplyPreset(preset_name) ==
    /\ call' = AgentCall("apply_preset_config", preset_name)
    /\ environ' = apply_preset_config(environ, preset_name).env
    /\ result' = [status |-> "none",
                  returned |-> apply_preset_config(environ, preset_name).returned]
    /\ UNCHANGED <<db, transaction_connections, executed, requests, manager_vars,
                   user_query, session_state, events>>

NextChat ==
    \/ \E prompt \in ChatQueries :
           \/ \E up \in BOOLEAN, outcome \in {o \in NetworkOutcomes : o.kind \in {"Response", "ConnectionError"}},
                 llm \in {"text", "raises"} :
                  Chat(prompt, up, outcome, llm)
           \/ ChatFails(prompt)
    \/ ClearConversation

SpecChat == Init /\ [][NextChat]_vars

\* the sidebar's presets, on a page whose server cannot be made
NextPreset ==
    \/ \E preset_name \in PresetNames : ApplyPreset(preset_name)
    \/ \E prompt \in ChatQueries : ChatFails(prompt)
    \/ ClearConversation

SpecPreset == Init /\ [][NextPreset]_vars

\* the tool executions of the answers shown since the conversation was cleared
RECURSIVE ToolExecutionsOf(_)
ToolExecutionsOf(messages) ==
    IF messages = <<>> THEN 0
    ELSE Len(Get(Head(messages), "tool_executions", <<>>)) + ToolExecutionsOf(Tail(messages))

\* C12: session_state.tool_executions holds one entry for each tool
\* execution of the questions processed since the conversation was cleared,
\* so the Tool Calls figure is their number.
C12_ToolCallsCounted ==
    Len(session_state.tool_executions) = ToolExecutionsOf(session_state.messages)

\* C12 fails where a question ran a tool: the answer carries the record and
\* the list of the session is still empty
C12_Unrecorded ==
    /\ ToolExecutionsOf(session_state.messages) > 0
    /\ session_state.tool_executions = <<>>

\* the environment after the preset has been applied, as the claim has it
PresetEnvironment(env, preset) ==
    [k \in DOMAIN env \cup DOMAIN preset |-> IF k \in DOMAIN preset THEN preset[k] ELSE env[k]]

\* C18: apply_preset_config(name) for one of the four presets sets that
\* preset's environment variables to the preset's values, changes no other
\* environment variable and no session state, and returns True; for any
\* other name it returns False and changes nothing.
C18_PresetFrame ==
    [][call'.tool = "apply_preset_config" =>
          /\ session_state' = session_state
          /\ IF call'.input \in {"Development", "Production", "Testing", "Demo"}
             THEN /\ result'.returned = TRUE
                  /\ environ' = PresetEnvironment(environ, DEPLOYMENT_PRESETS[call'.input])
             ELSE /\ result'.returned = FALSE
                  /\ environ' = environ]_vars

\* a preset applied over another one, with a key and a conversation in place
C18_Witness ==
    /\ call.tool = "apply_preset_config"
    /\ call.input = "Testing"
    /\ result.returned
    /\ environ = [PATH |-> "/usr/bin", OPENAI_API_KEY |-> "api_key_input",
                  LOG_LEVEL |-> "WARNING", API_TIMEOUT |-> "60", API_MAX_RETRIES |-> "1",
                  CACHE_TOOL_RESULTS |-> "false", ENVIRONMENT |-> "testing"]
    /\ session_state.messages # <<>>

(***************************************************************************)
(* SpecGate: the three Oracle tools, with statements of a BEGIN that       *)
(* _validate_sql_query refuses.                                            *)
(***************************************************************************)

\* statements of a BEGIN: the two inserts and a SELECT of a column whose
\* name holds CREATE, which _validate_sql_query refuses
GateStatements == TransactionStatements \cup { SelectFrom("employees", 12) }

GateLists == UNION { [1..n -> GateStatements] : n \in 1..MaxStatements }

\* OracleTransactionTool._run("BEGIN", sql_statements)
GateBegin(thread_id, sql_statements) ==
    /\ call' = [tool |-> "transaction", thread |-> thread_id, operation |-> <<"B","E","G","I","N">>,
                input |-> sql_statements]
    /\ Returned(OracleTransactionTool_run(db, transaction_connections, thread_id,
                                          <<"B","E","G","I","N">>, sql_statements))

NextGate ==
    \/ Query
    \/ Schema
    \/ Transaction
    \/ \E thread_id \in Threads, sql_statements \in GateLists :
           GateBegin(thread_id, sql_statements)

SpecGate == Init /\ [][NextGate]_vars

\* C20: every statement that reaches execute_query through an Oracle tool
\* has passed _validate_sql_query before: it is a statement the validation
\* accepts or, in the query tool, the rewriting of the sql_query it accepted.
C20_ValidatedFirst ==
    call.tool \in {"query", "schema", "transaction"} =>
        \A i \in DOMAIN executed :
            \/ validate_sql_query(executed[i].query)
            \/ call.tool = "query" /\ validate_sql_query(call.input)

\* C20 fails where the transaction tool ran a statement the validation
\* refuses
C20_Unvalidated ==
    /\ call.tool = "transaction"
    /\ \E i \in DOMAIN executed :
           /\ ~ validate_sql_query(executed[i].query)
           /\ executed[i].status = "success"

(***************************************************************************)
(* SpecDb: DatabaseManager over one database file: statements run through  *)
(* execute_query, and the manager constructed again.                       *)
(***************************************************************************)

\* executemany of one seeded table on a cursor whose connection enforces the
\* foreign keys: [db, ok].  A row whose primary key is taken raises
\* sqlite3.IntegrityError; the departments come in with manager_id None,
\* each employee after its manager and its department.
seeded(d, table) ==
    IF d.rows[table] \cap SeedDB.rows[table] # {}
    THEN [db |-> d, ok |-> FALSE]
    ELSE IF table = "employees"
            /\ \E e \in SeedDB.rows["employees"] :
                   SeedDB.dept_of[e] \notin d.rows["departments"]
    THEN [db |-> d, ok |-> FALSE]
    ELSE [db |-> [rows |-> [d.rows EXCEPT ![table] = @ \cup SeedDB.rows[table]],
                  dept_of |-> IF table = "employees"
                              THEN [e \in d.rows["employees"] \cup SeedDB.rows["employees"] |->
                                       IF e \in SeedDB.rows["employees"]
                                       THEN SeedDB.dept_of[e] ELSE d.dept_of[e]]
                              ELSE d.dept_of,
                  mgr_of |-> IF table = "departments"
                             THEN [k \in d.rows["departments"] \cup SeedDB.rows["departments"] |->
                                      IF k \in SeedDB.rows["departments"] THEN 0 ELSE d.mgr_of[k]]
                             ELSE d.mgr_of],
          ok |-> TRUE]

\* the tables _insert_sample_data fills, in its order
SeedOrder == <<"departments", "employees", "products", "orders">>

\* the inserts of _insert_sample_data from the i-th table on: [db, ok]
RECURSIVE seeded_from(_, _)
seeded_from(d, i) ==
    IF i > Len(SeedOrder) THEN [db |-> d, ok |-> TRUE]
    ELSE IF seeded(d, SeedOrder[i]).ok
    THEN seeded_from(seeded(d, SeedOrder[i]).db, i + 1)
    ELSE [db |-> d, ok |-> FALSE]

\* _insert_sample_data: nothing when departments has a row, else the four
\* executemany: [db, ok]
insert_sample_data(d) ==
    IF Cardinality(d.rows["departments"]) > 0
    THEN [db |-> d, ok |-> TRUE]
    ELSE seeded_from(d, 1)

\* _initialize_database: CREATE TABLE IF NOT EXISTS leaves the tables as they
\* are; an exception of the inserts rolls the connection back and is raised
\* again: [db, raised]
initialize_database(d) ==
    IF insert_sample_data(d).ok
    THEN [db |-> insert_sample_data(d).db, raised |-> FALSE]
    ELSE [db |-> d, raised |-> TRUE]

\* the statements that change rows
DmlTexts == {StatementText[st] : st \in {s \in Statements : s.verb # "SELECT"}}

\* DatabaseManager.execute_query(query)
DbExecute(query) ==
    /\ call' = [tool |-> "execute_query", thread |-> "none", operation |-> <<>>,
                input |-> query]
    /\ db' = execute_query(db, query).db
    /\ result' = execute_query(db, query).result
    /\ executed' = Executed(query, execute_query(db, query).result)
    /\ UNCHANGED <<transaction_connections, manager_vars, requests, app_vars>>

\* DatabaseManager() against the same file
Construct ==
    /\ call' = [tool |-> "DatabaseManager", thread |-> "none", operation |-> <<>>,
                input |-> <<>>]
    /\ db' = initialize_database(db).db
    /\ result' = [status |-> IF initialize_database(db).raised THEN "raised" ELSE "constructed"]
    /\ executed' = <<>>
    /\ UNCHANGED <<transaction_connections, manager_vars, requests, app_vars>>

NextDb ==
    \/ \E query \in DmlTexts : DbExecute(query)
    \/ Construct

SpecDb == Init /\ [][NextDb]_vars

\* C16: DatabaseManager constructed again, in a database state reached through
\* execute_query, succeeds and inserts no seed row a second time: the
\* database is as it was.
C16_PopulatedOnce ==
    [][call'.tool = "DatabaseManager" =>
          result'.status = "constructed" /\ db' = db]_vars

\* C16 fails where the constructor raised: departments and employees had
\* been emptied, products had not
C16_Raised ==
    /\ call.tool = "DatabaseManager"
    /\ result.status = "raised"
    /\ db.rows["departments"] = {}
    /\ db.rows["products"] # {}

\* C17: every department_id of an employee is a department, every
\* manager_id of an employee and of a department that is not NULL is an
\* employee.
C17_ReferentialIntegrity ==
    /\ \A e \in db.rows["employees"] :
           /\ db.dept_of[e] \in db.rows["departments"]
           /\ e \in DOMAIN manager_id => manager_id[e] \in db.rows["employees"]
    /\ \A k \in db.rows["departments"] :
           db.mgr_of[k] # 0 => db.mgr_of[k] \in db.rows["employees"]

\* a statement that would leave an employee without its department, or a
\* department without its manager, was refused
C17_Witness ==
    /\ call.tool = "execute_query"
    /\ call.input \in {DeleteDept(70), StatementText[[verb |-> "DELETE", table |-> "employees",
                                                      col |-> 0, key |-> 200, dept |-> 0]]}
    /\ result.status = "error"
    /\ 70 \in db.rows["departments"]
    /\ 200 \in db.rows["employees"]
    /\ db.dept_of[200] = 70 \/ db.mgr_of[70] = 200
=============================================================================
